---- MODULE Spec2Model ----
(***************************************************************************)
(* Model of the analytical query front-end (backend/src): the shared       *)
(* DuckDB connection behind a tokio Mutex, the request handlers that lock  *)
(* it, the SQL denylist validators, the result materialisation loops and   *)
(* the query models (QueryResult, AggregationOperation, QueryCache) and    *)
(* the analytics service.                                                  *)
(*                                                                         *)
(* SQL texts and identifiers are sequences of one-character strings, so    *)
(* that lower-casing, substring search and formatting are computed.        *)
(***************************************************************************)
EXTENDS Integers, Sequences, FiniteSets, TLC

VARIABLES lock, pc, call, stmts, ret, inp, out, tableVersion, store, clock, cache

vars == <<lock, pc, call, stmts, ret, inp, out, tableVersion, store, clock, cache>>

(***************************************************************************)
(* Bounds of the model.                                                    *)
(***************************************************************************)
\* number of concurrently running request tasks
NumRequests == 2
\* the largest number of rows a statement of the engine yields
MaxRows == 1001
\* the number of cache entries built, and the instant up to which the
\* clock advances second by second
MaxEntries == 2
\* the number of INSERTs that run next to correlation_matrix
MaxWrites == 2
MaxClock == 3

\* the largest number of rows of a backing table seen by preview_data
MaxTableRows == 10001

(***************************************************************************)
(* Text helpers (Rust str methods).                                        *)
(***************************************************************************)
UpperCase == <<"A","B","C","D","E","F","G","H","I","J","K","L","M","N","O","P","Q","R","S","T","U","V","W","X","Y","Z">>
LowerCase == <<"a","b","c","d","e","f","g","h","i","j","k","l","m","n","o","p","q","r","s","t","u","v","w","x","y","z">>

\* char::to_lowercase on the characters of the model's alphabet
to_lowercase_char(c) ==
    IF \E i \in 1..26 : UpperCase[i] = c
    THEN LowerCase[CHOOSE i \in 1..26 : UpperCase[i] = c]
    ELSE c

\* str::to_lowercase
to_lowercase(s) == [i \in 1..Len(s) |-> to_lowercase_char(s[i])]

\* str::contains(pattern)
contains(s, pat) ==
    \E i \in 0..(Len(s) - Len(pat)) : \A j \in 1..Len(pat) : s[i + j] = pat[j]

\* the denylisted verbs as written in the source
S_drop == <<"d","r","o","p">>
S_delete == <<"d","e","l","e","t","e">>
S_insert == <<"i","n","s","e","r","t">>
S_update == <<"u","p","d","a","t","e">>

RECURSIVE Concat(_)
\* concatenation of a sequence of texts (format! / push_str)
Concat(parts) ==
    IF parts = <<>> THEN <<>> ELSE Head(parts) \o Concat(Tail(parts))

RECURSIVE Join(_, _)
\* [String]::join(sep)
Join(parts, sep) ==
    IF parts = <<>> THEN <<>>
    ELSE IF Len(parts) = 1 THEN parts[1]
    ELSE parts[1] \o sep \o Join(Tail(parts), sep)

Digits == <<"0","1","2","3","4","5","6","7","8","9">>

RECURSIVE FormatNat(_)
\* Display of an unsigned integer (format!("{}", n))
FormatNat(n) ==
    IF n < 10 THEN <<Digits[n + 1]>>
    ELSE FormatNat(n \div 10) \o <<Digits[(n % 10) + 1]>>

Min(a, b) == IF a < b THEN a ELSE b

(***************************************************************************)
(* Safety validators.                                                      *)
(***************************************************************************)
\* mutant: the denylist test without lower-casing the text
general_denylist_case_sensitive(sql) ==
    contains(sql, S_drop) \/ contains(sql, S_delete)

\* queries.rs:233  the denylist test of execute_custom_query (general mode)
general_denylist(sql) ==
    \/ contains(to_lowercase(sql), S_drop)
    \/ contains(to_lowercase(sql), S_delete)

\* mutant: the WebSocket path tests only the verbs of the general path
read_only_denylist_general(sql) ==
    LET sql_lower == to_lowercase(sql) IN
    contains(sql_lower, S_drop) \/ contains(sql_lower, S_delete)

\* websocket.rs:236-237  the denylist test of execute_websocket_query
read_only_denylist(sql) ==
    LET sql_lower == to_lowercase(sql) IN
    \/ contains(sql_lower, S_drop)
    \/ contains(sql_lower, S_delete)
    \/ contains(sql_lower, S_insert)
    \/ contains(sql_lower, S_update)

(***************************************************************************)
(* The embedded engine as seen by a caller.  A response of the engine to   *)
(* one statement is a record                                               *)
(*   fail   : "none", or the stage that fails: "prepare", "query", "row"   *)
(*   failAt : for "row", the call of rows.next()/get_ref that fails        *)
(*   names  : the column names in the statement's metadata                 *)
(*   nrows  : the number of rows the statement yields when fully iterated  *)
(* The cells of a row are determined by the row and column index (CellAt), *)
(* cycling through the native kinds.                                       *)
(***************************************************************************)
NullCell == [kind |-> "Null", n |-> 0, s |-> "", ok |-> TRUE]

\* native cells: kind is the ValueRef variant; n the numeric payload; s the
\* text payload; ok: the float is finite / the text is valid UTF-8
CellCycle == <<
    NullCell,
    [kind |-> "Int", n |-> 42, s |-> "", ok |-> TRUE],
    [kind |-> "Double", n |-> 3, s |-> "", ok |-> TRUE],
    [kind |-> "Text", n |-> 0, s |-> "hi", ok |-> TRUE],
    [kind |-> "Blob", n |-> 0, s |-> "bytes", ok |-> TRUE],
    [kind |-> "BigInt", n |-> 7, s |-> "", ok |-> TRUE],
    [kind |-> "Double", n |-> 0, s |-> "", ok |-> FALSE],
    [kind |-> "Text", n |-> 0, s |-> "h", ok |-> FALSE],
    [kind |-> "Integer", n |-> 5, s |-> "", ok |-> TRUE],
    [kind |-> "Real", n |-> 2, s |-> "", ok |-> TRUE],
    [kind |-> "Real", n |-> 0, s |-> "", ok |-> FALSE],
    [kind |-> "Boolean", n |-> 1, s |-> "", ok |-> TRUE] >>

\* the native cell in column j of the i-th row of a statement; numeric
\* payloads are offset by the row number so that rows differ
CellAt(i, j) ==
    LET c == CellCycle[((i + j) % Len(CellCycle)) + 1] IN
    IF c.kind \in {"Int", "BigInt", "Integer"} THEN [c EXCEPT !.n = c.n + i] ELSE c

JNull == [t |-> "Null", n |-> 0, s |-> ""]
JNumber(n) == [t |-> "Number", n |-> n, s |-> ""]
JString(s) == [t |-> "String", n |-> 0, s |-> s]

\* String::from_utf8_lossy: invalid bytes are replaced, never an error
from_utf8_lossy(c) == IF c.ok THEN c.s ELSE "U+FFFD"

\* serde_json::Number::from_f64(f).unwrap_or_else(|| Number::from(0))
from_f64_or_zero(c) == IF c.ok THEN JNumber(c.n) ELSE JNumber(0)

\* queries.rs:253-263  the match of execute_custom_query on row.get_ref(i)
map_value_custom(c) ==
    CASE c.kind = "Null" -> JNull
      [] c.kind = "Int" -> JNumber(c.n)
      [] c.kind = "BigInt" -> JNumber(c.n)
      [] c.kind = "Double" -> from_f64_or_zero(c)
      [] c.kind = "Text" -> JString(from_utf8_lossy(c))
      [] c.kind = "Blob" -> JString("BLOB")
      [] OTHER -> JString("UNKNOWN")

\* websocket.rs:257-265, duckdb.rs:45-53, data.rs:186-194  the match on
\* row.get_ref(i) with the arms Null, Integer, Real, Text, Blob and no
\* wildcard arm; a kind none of the arms names yields the marker NoArm
map_value_ref(c) ==
    CASE c.kind = "Null" -> JNull
      [] c.kind = "Integer" -> JNumber(c.n)
      [] c.kind = "Real" -> from_f64_or_zero(c)
      [] c.kind = "Text" -> JString(from_utf8_lossy(c))
      [] c.kind = "Blob" -> JString("BLOB")
      [] OTHER -> [t |-> "NoArm", n |-> 0, s |-> c.kind]

Range(f) == {f[x] : x \in DOMAIN f}

\* the error values of the model
\* kind: the error variant; msg: its fixed text; arg: the formatted argument
NoErr == [kind |-> "none", msg |-> "", arg |-> <<>>]
EngineErr(stage) == [kind |-> "Engine", msg |-> stage, arg |-> <<>>]
\* queries.rs:234-237  duckdb::Error::ToSqlConversionFailure(PermissionDenied)
ForbiddenErr == [kind |-> "Forbidden", msg |-> "Destructive operations are not allowed", arg |-> <<>>]
\* websocket.rs:238-240  AppError::bad_request
WsForbiddenErr == [kind |-> "BadRequest", msg |-> "Only SELECT queries are allowed via WebSocket", arg |-> <<>>]

\* the state of a row loop: rows pushed so far, the error of a failed fetch,
\* and whether the loop has ended (stream exhausted, error, or break)
LoopStart == [data |-> <<>>, err |-> NoErr, stop |-> FALSE]

\* websocket.rs:273  the row cap of the streaming path
WsRowCap == 1000

\* mutant: row_count taken from the columns instead of the rows
QueryResult_new_counts_columns(columns, data) ==
    [columns |-> columns, data |-> data, row_count |-> Len(columns)]

\* models/query.rs:116-123  QueryResult::new
QueryResult_new(columns, data) ==
    [columns |-> columns, data |-> data, row_count |-> Len(data)]

\* models/query.rs:125-131  QueryResult::empty
QueryResult_empty == [columns |-> <<>>, data |-> <<>>, row_count |-> 0]

\* what a failed call carries instead of a result
NoResult == [columns |-> <<>>, data |-> <<>>, row_count |-> 0]

\* the return value of a call: Err(err) when err.kind # "none", else
\* Ok(value); prepared counts the statements the call prepared
Failed(e, prepared) == [err |-> e, prepared |-> prepared, value |-> NoResult]
Succeeded(v, prepared) == [err |-> NoErr, prepared |-> prepared, value |-> v]

\* mutant: a failing rows.next() ends the loop like the end of the stream,
\* and the rows fetched so far are returned
custom_turn_keeps_rows(st, i, eng) ==
    IF st.stop THEN st
    ELSE IF eng.fail = "row" /\ eng.failAt = i THEN [st EXCEPT !.stop = TRUE]
    ELSE IF i > eng.nrows THEN [st EXCEPT !.stop = TRUE]
    ELSE [st EXCEPT !.data = Append(@,
              [j \in 1..Len(eng.names) |-> map_value_custom(CellAt(i, j))])]

\* queries.rs:250-267  one turn of `while let Some(row) = rows.next()?`:
\* the i-th rows.next() fails, or ends the stream, or yields a row whose
\* column_count cells are mapped and pushed
custom_turn(st, i, eng) ==
    IF st.stop THEN st
    ELSE IF eng.fail = "row" /\ eng.failAt = i
         THEN [st EXCEPT !.err = EngineErr("row"), !.stop = TRUE]
    ELSE IF i > eng.nrows THEN [st EXCEPT !.stop = TRUE]
    ELSE [st EXCEPT !.data = Append(@,
              [j \in 1..Len(eng.names) |-> map_value_custom(CellAt(i, j))])]

RECURSIVE custom_rows(_, _, _, _)
\* queries.rs:250-267  the row loop, turns lo..hi in order (the range is
\* halved so that the evaluation depth stays logarithmic)
custom_rows(st, lo, hi, eng) ==
    IF lo > hi THEN st
    ELSE IF lo = hi THEN custom_turn(st, lo, eng)
    ELSE LET mid == (lo + hi) \div 2
             left == custom_rows(st, lo, mid, eng)
         IN  IF left.stop THEN left ELSE custom_rows(left, mid + 1, hi, eng)

\* queries.rs:229-275  AnalyticsQueries::execute_custom_query
execute_custom_query(sql, eng) ==
    IF general_denylist(sql) THEN Failed(ForbiddenErr, 0)
    ELSE IF eng.fail = "prepare" THEN Failed(EngineErr("prepare"), 1)
    ELSE IF eng.fail = "query" THEN Failed(EngineErr("query"), 1)
    ELSE LET column_names == eng.names
             st == custom_rows(LoopStart, 1, eng.nrows + 1, eng)
         IN  IF st.err # NoErr THEN Failed(st.err, 1)
             ELSE Succeeded([columns |-> column_names, data |-> st.data,
                             row_count |-> Len(st.data)], 1)

\* duckdb.rs:42-57  one turn of the row loop of execute_query_with_params
params_turn(st, i, eng) ==
    IF st.stop THEN st
    ELSE IF eng.fail = "row" /\ eng.failAt = i
         THEN [st EXCEPT !.err = EngineErr("row"), !.stop = TRUE]
    ELSE IF i > eng.nrows THEN [st EXCEPT !.stop = TRUE]
    ELSE [st EXCEPT !.data = Append(@,
              [j \in 1..Len(eng.names) |-> map_value_ref(CellAt(i, j))])]

RECURSIVE params_rows(_, _, _, _)
\* duckdb.rs:41-57  the row loop, turns lo..hi in order
params_rows(st, lo, hi, eng) ==
    IF lo > hi THEN st
    ELSE IF lo = hi THEN params_turn(st, lo, eng)
    ELSE LET mid == (lo + hi) \div 2
             left == params_rows(st, lo, mid, eng)
         IN  IF left.stop THEN left ELSE params_rows(left, mid + 1, hi, eng)

\* duckdb.rs:21-60  DuckDBService::execute_query_with_params (the body
\* after the lock is acquired; params are ignored by the code)
execute_query_with_params(sql, eng) ==
    IF eng.fail = "prepare" THEN Failed(EngineErr("prepare"), 1)
    ELSE IF eng.fail = "query" THEN Failed(EngineErr("query"), 1)
    ELSE LET st == params_rows(LoopStart, 1, eng.nrows + 1, eng)
         IN  IF st.err # NoErr THEN Failed(st.err, 1)
             ELSE Succeeded(QueryResult_new(eng.names, st.data), 1)

\* websocket.rs:254-270  the row object: columns are inserted in order into
\* a serde_json::Map, a later column of the same name replaces the earlier
row_object(columns, i) ==
    [k \in Range(columns) |->
        LET j == CHOOSE j \in DOMAIN columns :
                     /\ columns[j] = k
                     /\ \A j2 \in DOMAIN columns : columns[j2] = k => j2 <= j
        IN map_value_ref(CellAt(i, j))]

\* mutant: the break is taken one row late (data.len() > 1000)
ws_turn_break_late(st, i, eng) ==
    IF st.stop THEN st
    ELSE IF eng.fail = "row" /\ eng.failAt = i
         THEN [st EXCEPT !.err = EngineErr("row"), !.stop = TRUE]
    ELSE IF i > eng.nrows THEN [st EXCEPT !.stop = TRUE]
    ELSE LET data == Append(st.data, row_object(eng.names, i)) IN
         [st EXCEPT !.data = data, !.stop = (Len(data) > WsRowCap)]

\* mutant: reaching the cap fails the call instead of ending the loop
ws_turn_cap_is_error(st, i, eng) ==
    IF st.stop THEN st
    ELSE IF eng.fail = "row" /\ eng.failAt = i
         THEN [st EXCEPT !.err = EngineErr("row"), !.stop = TRUE]
    ELSE IF i > eng.nrows THEN [st EXCEPT !.stop = TRUE]
    ELSE LET data == Append(st.data, row_object(eng.names, i)) IN
         IF Len(data) >= WsRowCap
         THEN [st EXCEPT !.err = EngineErr("row cap"), !.stop = TRUE]
         ELSE [st EXCEPT !.data = data]

\* websocket.rs:253-277  one turn of the row loop, with the break once
\* data.len() >= 1000
ws_turn(st, i, eng) ==
    IF st.stop THEN st
    ELSE IF eng.fail = "row" /\ eng.failAt = i
         THEN [st EXCEPT !.err = EngineErr("row"), !.stop = TRUE]
    ELSE IF i > eng.nrows THEN [st EXCEPT !.stop = TRUE]
    ELSE LET data == Append(st.data, row_object(eng.names, i)) IN
         [st EXCEPT !.data = data, !.stop = (Len(data) >= WsRowCap)]

\* Err(e) of execute_websocket_query, whose Ok value is a Vec of objects
WsFailed(e, prepared) == [err |-> e, prepared |-> prepared, value |-> <<>>]

RECURSIVE ws_rows(_, _, _, _)
\* websocket.rs:253-277  the row loop, turns lo..hi in order
ws_rows(st, lo, hi, eng) ==
    IF lo > hi THEN st
    ELSE IF lo = hi THEN ws_turn(st, lo, eng)
    ELSE LET mid == (lo + hi) \div 2
             left == ws_rows(st, lo, mid, eng)
         IN  IF left.stop THEN left ELSE ws_rows(left, mid + 1, hi, eng)

\* websocket.rs:228-280  execute_websocket_query (the body after the lock
\* is acquired); value.data is the Vec of row objects
execute_websocket_query(sql, eng) ==
    IF read_only_denylist(sql) THEN WsFailed(WsForbiddenErr, 0)
    ELSE IF eng.fail = "prepare" THEN WsFailed(EngineErr("prepare"), 1)
    ELSE IF eng.fail = "query" THEN WsFailed(EngineErr("query"), 1)
    ELSE LET st == ws_rows(LoopStart, 1, eng.nrows + 1, eng)
         IN  IF st.err # NoErr THEN WsFailed(st.err, 1)
             ELSE [err |-> NoErr, prepared |-> 1, value |-> st.data]

(***************************************************************************)
(* The WebSocket message loop (query:execute).                             *)
(***************************************************************************)
\* Option<String>
NoneText == [some |-> FALSE, v |-> [prefix |-> "", msg |-> "", arg |-> <<>>]]
SomeText(v) == [some |-> TRUE, v |-> v]

\* utils/error.rs:9-49  Display of AppError (#[error("...: {0}")]): the
\* prefix of the variant and the message
to_string(e) ==
    CASE e.kind = "BadRequest" -> [prefix |-> "Bad request: ", msg |-> e.msg, arg |-> e.arg]
      [] e.kind = "Engine" -> [prefix |-> "Database error: ", msg |-> e.msg, arg |-> e.arg]
      [] e.kind = "Forbidden" -> [prefix |-> "Database error: ", msg |-> e.msg, arg |-> e.arg]
      [] e.kind = "NotFound" -> [prefix |-> "Not found: ", msg |-> e.msg, arg |-> e.arg]
      [] e.kind = "Internal" -> [prefix |-> "Internal server error: ", msg |-> e.msg, arg |-> e.arg]
      [] OTHER -> [prefix |-> "", msg |-> e.msg, arg |-> e.arg]

\* mutant: a failed query is returned as the handler's error
handle_client_message_returns_query_error(sql, eng, rx_alive) ==
    LET r == execute_websocket_query(sql, eng)
    IN  IF r.err = NoErr
        THEN [err |-> NoErr,
              sent |-> <<[type |-> "query:result", data |-> r.value,
                          error |-> NoneText]>>,
              query |-> r]
        ELSE [err |-> r.err, sent |-> <<>>, query |-> r]

\* websocket.rs:192-222  the QueryExecute arm of handle_client_message:
\* the messages put on the channel and the handler's return; tx.send
\* fails when the channel has no receiver left (rx_alive = FALSE)
handle_client_message(sql, eng, rx_alive) ==
    LET r == execute_websocket_query(sql, eng)
        msg == IF r.err = NoErr
               THEN [type |-> "query:result", data |-> r.value, error |-> NoneText]
               ELSE [type |-> "query:result", data |-> <<>>,
                     error |-> SomeText(to_string(r.err))]
    IN  IF rx_alive
        THEN [err |-> NoErr, sent |-> <<msg>>, query |-> r]
        ELSE [err |-> [kind |-> "Internal",
                       msg |-> IF r.err = NoErr THEN "Failed to send query result"
                               ELSE "Failed to send query error",
                       arg |-> <<>>],
              sent |-> <<>>, query |-> r]

\* websocket.rs:97-112  one text message of the receive loop: when the
\* handler fails, an `error` message is sent (and dropped when that send
\* fails as well); the result is what the channel received
recv_text_message(sql, eng, rx_alive) ==
    LET h == handle_client_message(sql, eng, rx_alive) IN
    IF h.err = NoErr THEN h
    ELSE IF rx_alive
         THEN [h EXCEPT !.sent = Append(@, [type |-> "error", data |-> <<>>,
                                           error |-> SomeText(to_string(h.err))])]
         ELSE h

(***************************************************************************)
(* Aggregation requests (models/query.rs, handlers/analytics.rs).          *)
(* Option<T> values are records [some, v].                                 *)
(***************************************************************************)
S_SELECT == <<"S","E","L","E","C","T"," ">>
S_FROM == <<" ","F","R","O","M"," ">>
S_WHERE == <<" ","W","H","E","R","E"," ">>
S_AND == <<" ","A","N","D"," ">>
S_GROUP_BY == <<" ","G","R","O","U","P"," ","B","Y"," ">>
S_LIMIT == <<" ","L","I","M","I","T"," ">>
S_OFFSET == <<" ","O","F","F","S","E","T"," ">>
S_SELECT_STAR_FROM == <<"S","E","L","E","C","T"," ","*"," ","F","R","O","M"," ">>
S_LIKE_OPEN == <<" ","L","I","K","E"," ","'","%">>
S_LIKE_CLOSE == <<"%","'">>
S_EQ == <<" ","="," ">>
S_AS == <<" ","A","S"," ">>
S_SUM == <<"S","U","M","(">>
S_AVG == <<"A","V","G","(">>
S_COUNT == <<"C","O","U","N","T","(">>
S_MIN == <<"M","I","N","(">>
S_MAX == <<"M","A","X","(">>
S_COUNT_DISTINCT == <<"C","O","U","N","T","(","D","I","S","T","I","N","C","T"," ">>
S_RPAREN == <<")">>
S_COMMA == <<","," ">>
S_data_source_ == <<"d","a","t","a","_","s","o","u","r","c","e","_">>
S_UNDERSCORE == <<"_">>
N_sum == <<"s","u","m">>
N_avg == <<"a","v","g">>
N_count == <<"c","o","u","n","t">>
N_min == <<"m","i","n">>
N_max == <<"m","a","x">>
N_distinct_count == <<"d","i","s","t","i","n","c","t","_","c","o","u","n","t">>

\* models/query.rs:139-145  AggregationOperation::new
AggregationOperation_new(field, operation) ==
    [field |-> field, operation |-> operation, alias |-> [some |-> FALSE, v |-> <<>>]]

\* models/query.rs:147-150  AggregationOperation::with_alias
with_alias(op, alias) == [op EXCEPT !.alias = [some |-> TRUE, v |-> alias]]

\* mutant: the derived alias puts the field first
get_alias_field_first(op) ==
    IF op.alias.some THEN op.alias.v
    ELSE Concat(<<op.field, S_UNDERSCORE, op.operation>>)

\* models/query.rs:152-156  AggregationOperation::get_alias
get_alias(op) ==
    IF op.alias.some THEN op.alias.v
    ELSE Concat(<<op.operation, S_UNDERSCORE, op.field>>)

\* str::replace('-', "_")
replace_dash(id) == [i \in 1..Len(id) |-> IF id[i] = "-" THEN "_" ELSE id[i]]

\* analytics.rs:43, data.rs:146  the backing table of a data source
table_name_of(id) == S_data_source_ \o replace_dash(id)

\* the call sites that name the backing table of a data source
TableNameSites ==
    {"process_csv_file", "process_json_file", "process_parquet_file",
     "execute_query", "run_aggregation", "get_metrics", "delete_source",
     "preview_data"}

\* mutant: delete_source drops the table named by the identifier as given
table_name_at_raw_on_delete(site, id) ==
    IF site = "delete_source" THEN S_data_source_ \o id
    ELSE S_data_source_ \o replace_dash(id)

\* format!("data_source_{}", id.replace('-', "_")) as written at each call
\* site: file_processor.rs:72, 156, 244 (the fresh uuid), analytics.rs:23
\* (a request with a data_source_id), 43, 133, data.rs:102, 146
table_name_at(site, id) ==
    CASE site = "process_csv_file" -> S_data_source_ \o replace_dash(id)
      [] site = "process_json_file" -> S_data_source_ \o replace_dash(id)
      [] site = "process_parquet_file" -> S_data_source_ \o replace_dash(id)
      [] site = "execute_query" -> S_data_source_ \o replace_dash(id)
      [] site = "run_aggregation" -> table_name_of(id)
      [] site = "get_metrics" -> S_data_source_ \o replace_dash(id)
      [] site = "delete_source" -> S_data_source_ \o replace_dash(id)
      [] site = "preview_data" -> table_name_of(id)

\* analytics.rs:51-57  the supported operation names
SupportedOperation(name) ==
    name \in {N_sum, N_avg, N_count, N_min, N_max, N_distinct_count}

\* analytics.rs:51-57  the SQL function call of a supported operation
sql_op_of(op) ==
    CASE op.operation = N_sum -> Concat(<<S_SUM, op.field, S_RPAREN>>)
      [] op.operation = N_avg -> Concat(<<S_AVG, op.field, S_RPAREN>>)
      [] op.operation = N_count -> Concat(<<S_COUNT, op.field, S_RPAREN>>)
      [] op.operation = N_min -> Concat(<<S_MIN, op.field, S_RPAREN>>)
      [] op.operation = N_max -> Concat(<<S_MAX, op.field, S_RPAREN>>)
      [] op.operation = N_distinct_count ->
             Concat(<<S_COUNT_DISTINCT, op.field, S_RPAREN>>)

\* analytics.rs:49-69  the select items of the operations, in request order
agg_select_parts(operations) ==
    [i \in 1..Len(operations) |->
        Concat(<<sql_op_of(operations[i]), S_AS, get_alias(operations[i])>>)]

RECURSIVE insert_front_each(_, _)
\* analytics.rs:72-76  `for field in group_by { select_parts.insert(0, field) }`
insert_front_each(fields, parts) ==
    IF fields = <<>> THEN parts
    ELSE insert_front_each(Tail(fields), <<Head(fields)>> \o parts)

RECURSIVE filter_conditions(_)
\* analytics.rs:84-90, data.rs:157-163  one condition per entry whose
\* value is text (LIKE) or a number (=); other values add no condition
filter_conditions(entries) ==
    IF entries = <<>> THEN <<>>
    ELSE LET e == Head(entries)
             rest == filter_conditions(Tail(entries))
         IN  IF e.value.t = "String"
             THEN <<Concat(<<e.field, S_LIKE_OPEN, e.value.s, S_LIKE_CLOSE>>)>> \o rest
             ELSE IF e.value.t = "Number"
             THEN <<Concat(<<e.field, S_EQ, FormatNat(e.value.n)>>)>> \o rest
             ELSE rest

\* analytics.rs:78-110  the query text of an aggregation request whose
\* operations are all supported
aggregation_query(request) ==
    LET table_name == table_name_of(request.data_source_id)
        parts0 == agg_select_parts(request.operations)
        select_parts == IF request.group_by.some
                        THEN insert_front_each(request.group_by.v, parts0)
                        ELSE parts0
        q0 == Concat(<<S_SELECT, Join(select_parts, S_COMMA), S_FROM, table_name>>)
        conditions == IF request.filters.some /\ request.filters.v.object
                      THEN filter_conditions(request.filters.v.entries)
                      ELSE <<>>
        q1 == IF conditions # <<>>
              THEN q0 \o S_WHERE \o Join(conditions, S_AND) ELSE q0
        q2 == IF request.group_by.some /\ request.group_by.v # <<>>
              THEN q1 \o S_GROUP_BY \o Join(request.group_by.v, S_COMMA) ELSE q1
    IN  IF request.limit.some THEN q2 \o S_LIMIT \o FormatNat(request.limit.v) ELSE q2

\* mutant: the loop goes through all operations and reports the last one
\* that is not supported
last_unsupported(operations) ==
    IF \A i \in DOMAIN operations : SupportedOperation(operations[i].operation)
    THEN 0
    ELSE CHOOSE i \in DOMAIN operations :
            /\ ~SupportedOperation(operations[i].operation)
            /\ \A k \in (i + 1)..Len(operations) :
                  SupportedOperation(operations[k].operation)

\* analytics.rs:49-61  the first operation of the request that is not
\* supported (0 when all are)
first_unsupported(operations) ==
    IF \A i \in DOMAIN operations : SupportedOperation(operations[i].operation)
    THEN 0
    ELSE CHOOSE i \in DOMAIN operations :
            /\ ~SupportedOperation(operations[i].operation)
            /\ \A k \in 1..(i - 1) : SupportedOperation(operations[k].operation)

\* analytics.rs:34-121  run_aggregation (the body after the lock is
\* acquired); the value of an Ok is the AggregationResult; query is the
\* text handed to execute_custom_query (empty when none was compiled)
run_aggregation(request, eng) ==
    LET bad == first_unsupported(request.operations) IN
    IF bad # 0
    THEN [err |-> [kind |-> "BadRequest", msg |-> "Unsupported aggregation operation: ",
                   arg |-> request.operations[bad].operation],
          prepared |-> 0, value |-> NoResult, aggregations |-> <<>>, query |-> <<>>]
    ELSE LET text == aggregation_query(request)
             result == execute_custom_query(text, eng) IN
         IF result.err # NoErr
         THEN [err |-> result.err, prepared |-> result.prepared,
               value |-> NoResult, aggregations |-> <<>>, query |-> text]
         ELSE [err |-> NoErr, prepared |-> result.prepared, query |-> text,
               value |-> [columns |-> result.value.columns,
                          data |-> result.value.data,
                          row_count |-> result.value.row_count],
               aggregations |-> [i \in 1..Len(request.operations) |->
                                   [field |-> request.operations[i].field,
                                    operation |-> request.operations[i].operation]]]

(***************************************************************************)
(* The cache entry (models/query.rs, QueryCache).  Instants are counted in *)
(* seconds; now is the value of Utc::now() at the call and id the fresh    *)
(* uuid the constructor draws.  The TTLs of the model are far inside the   *)
(* range in which chrono::Duration::seconds and the addition do not        *)
(* panic.                                                                  *)
(***************************************************************************)
\* mutant: the entry expires at its creation, whatever the TTL
QueryCache_new_without_ttl(query_hash, query_sql, result_data, data_source_id, ttl_seconds, now, id) ==
    [id |-> id, query_hash |-> query_hash, query_sql |-> query_sql,
     result_data |-> result_data, data_source_id |-> data_source_id,
     created_at |-> now, expires_at |-> now]

\* QueryCache::new
QueryCache_new(query_hash, query_sql, result_data, data_source_id, ttl_seconds, now, id) ==
    [id |-> id, query_hash |-> query_hash, query_sql |-> query_sql,
     result_data |-> result_data, data_source_id |-> data_source_id,
     created_at |-> now, expires_at |-> now + ttl_seconds]

\* QueryCache::is_expired, with now the value of Utc::now() at the call
is_expired(self, now) == now > self.expires_at

(***************************************************************************)
(* The analytics service (services/analytics.rs): time-series aggregation  *)
(* and outlier detection.  Each validates its names with a match, builds   *)
(* one statement text with format! and hands it to                         *)
(* execute_query_with_params.  Runs of white space inside the statement    *)
(* literals are written as one space.  sent lists the statements handed    *)
(* to execute_query_with_params.                                           *)
(***************************************************************************)
N_hour == <<"h","o","u","r">>
N_day == <<"d","a","y">>
N_week == <<"w","e","e","k">>
N_month == <<"m","o","n","t","h">>
N_iqr == <<"i","q","r">>
N_zscore == <<"z","s","c","o","r","e">>
S_date_trunc == <<"d","a","t","e","_","t","r","u","n","c","(","'">>
S_date_trunc_sep == <<"'",","," ">>

\* AppError::bad_request(format!("<msg>{}", name))
BadRequestErr(msg, name) == [kind |-> "BadRequest", msg |-> msg, arg |-> name]

\* what a service call returns when it rejects its arguments
Rejected(e) == [err |-> e, prepared |-> 0, value |-> NoResult, sent |-> <<>>]

\* a service call that hands one statement to execute_query_with_params
\* and returns what that returns
SendOne(sql, eng) ==
    LET r == execute_query_with_params(sql, eng) IN
    [err |-> r.err, prepared |-> r.prepared, value |-> r.value, sent |-> <<sql>>]

\* mutant: an interval no arm names is truncated to the day
time_trunc_default_day(interval, time_column) ==
    IF interval \in {N_hour, N_day, N_week, N_month}
    THEN [some |-> TRUE,
          v |-> Concat(<<S_date_trunc, interval, S_date_trunc_sep, time_column, S_RPAREN>>)]
    ELSE [some |-> TRUE,
          v |-> Concat(<<S_date_trunc, N_day, S_date_trunc_sep, time_column, S_RPAREN>>)]

\* analytics.rs:79-85  the match on interval: the date_trunc call of a
\* supported interval, none for any other name
time_trunc(interval, time_column) ==
    IF interval \in {N_hour, N_day, N_week, N_month}
    THEN [some |-> TRUE,
          v |-> Concat(<<S_date_trunc, interval, S_date_trunc_sep, time_column, S_RPAREN>>)]
    ELSE [some |-> FALSE, v |-> <<>>]

\* analytics.rs:87-94  the match on aggregation
agg_func(aggregation, value_column) ==
    CASE aggregation = N_sum -> [some |-> TRUE, v |-> Concat(<<S_SUM, value_column, S_RPAREN>>)]
      [] aggregation = N_avg -> [some |-> TRUE, v |-> Concat(<<S_AVG, value_column, S_RPAREN>>)]
      [] aggregation = N_count -> [some |-> TRUE, v |-> Concat(<<S_COUNT, value_column, S_RPAREN>>)]
      [] aggregation = N_min -> [some |-> TRUE, v |-> Concat(<<S_MIN, value_column, S_RPAREN>>)]
      [] aggregation = N_max -> [some |-> TRUE, v |-> Concat(<<S_MAX, value_column, S_RPAREN>>)]
      [] OTHER -> [some |-> FALSE, v |-> <<>>]

\* analytics.rs:96-105  the statement text of a time-series aggregation
time_series_sql(tt, af, table_name, time_column, value_column) ==
    Concat(<<
         <<"S","E","L","E","C","T"," ">>,
         tt,
         <<" ","a","s"," ","t","i","m","e","_","p","e","r","i","o","d",","," ">>,
         af,
         <<" ","a","s"," ","v","a","l","u","e"," ","F","R","O","M"," ">>,
         table_name,
         <<" ","W","H","E","R","E"," ">>,
         time_column,
         <<" ","I","S"," ","N","O","T"," ","N","U","L","L"," ","A","N","D"," ">>,
         value_column,
         <<" ","I","S"," ","N","O","T"," ","N","U","L","L"," ","G","R","O","U","P"," ","B","Y"," ">>,
         tt,
         <<" ","O","R","D","E","R"," ","B","Y"," ","t","i","m","e","_","p","e","r","i","o","d">>>>)

\* analytics.rs:69-108  AnalyticsService::time_series_aggregation
time_series_aggregation(table_name, time_column, value_column, interval, aggregation, eng) ==
    LET tt == time_trunc(interval, time_column)
        af == agg_func(aggregation, value_column)
    IN  IF ~tt.some THEN Rejected(BadRequestErr("Invalid interval: ", interval))
        ELSE IF ~af.some THEN Rejected(BadRequestErr("Invalid aggregation: ", aggregation))
        ELSE SendOne(time_series_sql(tt.v, af.v, table_name, time_column, value_column), eng)

\* analytics.rs:121-141  the statement text of the iqr method
iqr_sql(column_name, table_name) ==
    Concat(<<
         <<"W","I","T","H"," ","s","t","a","t","s"," ","A","S"," ","("," ","S","E","L","E","C","T"," ","P","E","R","C","E","N","T","I","L","E","_","C","O","N","T","(","0",".","2","5",")"," ","W","I","T","H","I","N"," ","G","R","O","U","P"," ","(","O","R","D","E","R"," ","B","Y"," ">>,
         column_name,
         <<")"," ","a","s"," ","q","1",","," ","P","E","R","C","E","N","T","I","L","E","_","C","O","N","T","(","0",".","7","5",")"," ","W","I","T","H","I","N"," ","G","R","O","U","P"," ","(","O","R","D","E","R"," ","B","Y"," ">>,
         column_name,
         <<")"," ","a","s"," ","q","3"," ","F","R","O","M"," ">>,
         table_name,
         <<" ","W","H","E","R","E"," ">>,
         column_name,
         <<" ","I","S"," ","N","O","T"," ","N","U","L","L"," ",")",","," ","o","u","t","l","i","e","r","_","b","o","u","n","d","s"," ","A","S"," ","("," ","S","E","L","E","C","T"," ","q","1"," ","-"," ","1",".","5"," ","*"," ","(","q","3"," ","-"," ","q","1",")"," ","a","s"," ","l","o","w","e","r","_","b","o","u","n","d",","," ","q","3"," ","+"," ","1",".","5"," ","*"," ","(","q","3"," ","-"," ","q","1",")"," ","a","s"," ","u","p","p","e","r","_","b","o","u","n","d"," ","F","R","O","M"," ","s","t","a","t","s"," ",")"," ","S","E","L","E","C","T"," ","*"," ","F","R","O","M"," ">>,
         table_name,
         <<" ","C","R","O","S","S"," ","J","O","I","N"," ","o","u","t","l","i","e","r","_","b","o","u","n","d","s"," ","W","H","E","R","E"," ">>,
         column_name,
         <<" ","<"," ","l","o","w","e","r","_","b","o","u","n","d"," ","O","R"," ">>,
         column_name,
         <<" ",">"," ","u","p","p","e","r","_","b","o","u","n","d">>>>)

\* analytics.rs:143-158  the statement text of the zscore method.  The
\* format string names {0} and {1} and ends in one `{}`; by the rules of
\* format! a `{}` takes the next positional argument counted from the
\* first, which is column_name, so z_threshold does not reach the text
zscore_sql(column_name, table_name, z_threshold) ==
    Concat(<<
         <<"W","I","T","H"," ","s","t","a","t","s"," ","A","S"," ","("," ","S","E","L","E","C","T"," ","A","V","G","(">>,
         column_name,
         <<")"," ","a","s"," ","m","e","a","n",","," ","S","T","D","D","E","V","(">>,
         column_name,
         <<")"," ","a","s"," ","s","t","d","_","d","e","v"," ","F","R","O","M"," ">>,
         table_name,
         <<" ","W","H","E","R","E"," ">>,
         column_name,
         <<" ","I","S"," ","N","O","T"," ","N","U","L","L"," ",")"," ","S","E","L","E","C","T"," ","*",","," ","A","B","S","(","(">>,
         column_name,
         <<" ","-"," ","s","t","a","t","s",".","m","e","a","n",")"," ","/"," ","s","t","a","t","s",".","s","t","d","_","d","e","v",")"," ","a","s"," ","z","_","s","c","o","r","e"," ","F","R","O","M"," ">>,
         table_name,
         <<" ","C","R","O","S","S"," ","J","O","I","N"," ","s","t","a","t","s"," ","W","H","E","R","E"," ","A","B","S","(","(">>,
         column_name,
         <<" ","-"," ","s","t","a","t","s",".","m","e","a","n",")"," ","/"," ","s","t","a","t","s",".","s","t","d","_","d","e","v",")"," ",">"," ">>,
         column_name>>)

\* analytics.rs:111-165  AnalyticsService::detect_outliers
detect_outliers(table_name, column_name, method, threshold, eng) ==
    CASE method = N_iqr -> SendOne(iqr_sql(column_name, table_name), eng)
      [] method = N_zscore ->
             SendOne(zscore_sql(column_name, table_name,
                                IF threshold.some THEN threshold.v ELSE 3), eng)
      [] OTHER -> Rejected(BadRequestErr("Invalid outlier detection method: ", method))

(***************************************************************************)
(* preview_data (handlers/data.rs) and the engine's reading of its         *)
(* statement text: a `--` outside a string literal starts a comment that   *)
(* runs to the end of the (single-line) text, a `'` opens or closes a      *)
(* string literal, and the LIMIT / OFFSET clauses that count are the ones  *)
(* left in the code part of the text.                                      *)
(***************************************************************************)
\* data.rs:147  default and maximum of the preview limit
PreviewDefaultLimit == 1000
PreviewMaxLimit == 10000

\* the number of quote characters before position i of a text
quotes_before(text, i) == Cardinality({k \in 1..(i - 1) : text[k] = "'"})

\* the position at which the trailing comment of a text starts: the first
\* `--` outside a string literal, or one past the end when there is none
comment_start(text) ==
    LET at == {i \in 1..(Len(text) - 1) :
                  /\ text[i] = "-" /\ text[i + 1] = "-"
                  /\ quotes_before(text, i) % 2 = 0}
    IN  IF at = {} THEN Len(text) + 1
        ELSE CHOOSE i \in at : \A k \in at : i <= k

\* a string literal is still open where the code part of the text ends
literal_open(text) == quotes_before(text, comment_start(text)) % 2 = 1

\* position k of the text belongs to its code part: it lies before the
\* comment and outside the string literals
in_code(text, k, cs) ==
    k < cs /\ text[k] # "'" /\ quotes_before(text, k) % 2 = 0

IsDigit(c) == \E d \in 1..10 : Digits[d] = c

RECURSIVE parse_nat(_, _, _)
\* the unsigned integer literal that starts at position i of a text
parse_nat(text, i, acc) ==
    IF i > Len(text) \/ ~IsDigit(text[i]) THEN acc
    ELSE parse_nat(text, i + 1,
                   acc * 10 + ((CHOOSE d \in 1..10 : Digits[d] = text[i]) - 1))

\* the positions at which a keyword stands in the code part of a text
keyword_at(text, kw) ==
    LET cs == comment_start(text) IN
    {i \in 1..Len(text) :
        /\ i + Len(kw) - 1 <= Len(text)
        /\ \A j \in 1..Len(kw) :
              text[i + j - 1] = kw[j] /\ in_code(text, i + j - 1, cs)}

\* the value of a LIMIT / OFFSET clause of the code part, if there is one
clause_value(text, kw) ==
    LET at == keyword_at(text, kw) IN
    IF at = {} THEN [some |-> FALSE, v |-> 0]
    ELSE LET i == CHOOSE i \in at : \A k \in at : k <= i IN
         [some |-> TRUE, v |-> parse_nat(text, i + Len(kw), 0)]

\* the number of rows the engine yields for a SELECT over a table of which
\* `matching` rows satisfy the WHERE clause (all rows when there is none)
select_rows(text, matching) ==
    LET lim == clause_value(text, S_LIMIT)
        off == clause_value(text, S_OFFSET)
        left == IF matching > off.v THEN matching - off.v ELSE 0
    IN  IF lim.some THEN Min(lim.v, left) ELSE left

\* data.rs:147  the effective limit of a preview request
preview_limit(request) ==
    Min(IF request.limit.some THEN request.limit.v ELSE PreviewDefaultLimit,
        PreviewMaxLimit)

\* data.rs:146-169  the statement text of a preview request
preview_query(id, request) ==
    LET table_name == table_name_of(id)
        limit == preview_limit(request)
        offset == IF request.offset.some THEN request.offset.v ELSE 0
        conditions == IF request.filters.some /\ request.filters.v.object
                      THEN filter_conditions(request.filters.v.entries)
                      ELSE <<>>
    IN  IF conditions # <<>>
        THEN Concat(<<S_SELECT_STAR_FROM, table_name, S_WHERE,
                      Join(conditions, S_AND), S_LIMIT, FormatNat(limit),
                      S_OFFSET, FormatNat(offset)>>)
        ELSE Concat(<<S_SELECT_STAR_FROM, table_name, S_LIMIT, FormatNat(limit),
                      S_OFFSET, FormatNat(offset)>>)

\* data.rs:183-198  one turn of the row loop of preview_data
preview_turn(st, i, eng) ==
    IF st.stop THEN st
    ELSE IF eng.fail = "row" /\ eng.failAt = i
         THEN [st EXCEPT !.err = EngineErr("row"), !.stop = TRUE]
    ELSE IF i > eng.nrows THEN [st EXCEPT !.stop = TRUE]
    ELSE [st EXCEPT !.data = Append(@,
              [j \in 1..Len(eng.names) |-> map_value_ref(CellAt(i, j))])]

RECURSIVE preview_rows(_, _, _, _)
\* data.rs:182-198  the row loop, turns lo..hi in order
preview_rows(st, lo, hi, eng) ==
    IF lo > hi THEN st
    ELSE IF lo = hi THEN preview_turn(st, lo, eng)
    ELSE LET mid == (lo + hi) \div 2
             left == preview_rows(st, lo, mid, eng)
         IN  IF left.stop THEN left ELSE preview_rows(left, mid + 1, hi, eng)

\* what a failed preview carries instead of a response
NoPreview == [columns |-> <<>>, data |-> <<>>, total_rows |-> 0, preview_rows |-> 0]

\* data.rs:131-208  preview_data (the body after the lock is acquired).
\* source: the record get_by_id finds ([some, v |-> row_count]); db: the
\* table as the engine sees it ([fail, failAt, names, matching])
preview_data(id, request, source, db) ==
    IF ~source.some
    THEN [err |-> [kind |-> "NotFound", msg |-> "Data source not found: ", arg |-> id],
          prepared |-> 0, value |-> NoPreview]
    ELSE LET query == preview_query(id, request)
             resp == [fail |-> db.fail, failAt |-> db.failAt, names |-> db.names,
                     nrows |-> select_rows(query, db.matching)]
         IN  IF literal_open(query)
             THEN [err |-> EngineErr("prepare"), prepared |-> 1, value |-> NoPreview]
             ELSE IF resp.fail \in {"prepare", "query"}
             THEN [err |-> EngineErr(resp.fail), prepared |-> 1, value |-> NoPreview]
             ELSE LET st == preview_rows(LoopStart, 1, resp.nrows + 1, resp) IN
                  IF st.err # NoErr
                  THEN [err |-> st.err, prepared |-> 1, value |-> NoPreview]
                  ELSE [err |-> NoErr, prepared |-> 1,
                        value |-> [columns |-> resp.names, data |-> st.data,
                                   total_rows |-> source.v,
                                   preview_rows |-> Len(st.data)]]

(***************************************************************************)
(* The bookkeeping tables of the database.  store is a record:             *)
(*   migrations   : the versions recorded in __migrations                  *)
(*   applied      : the versions whose migration SQL ran to its end, in    *)
(*                  the order in which they ran                            *)
(*   partial      : the versions whose batch failed after its first        *)
(*                  statement (execute_batch runs statement by statement)  *)
(*   data_sources : the ids that have a record in data_sources             *)
(*   tables       : the ids whose backing table data_source_<id> exists    *)
(*   configs      : the rows of dashboard_configs, in the order of their   *)
(*                  creation; the id of a row is its position              *)
(***************************************************************************)
\* migrations.rs:75-157  get_migrations: the versions, in the order of the
\* vec!, and the number of statements of each batch
MigrationVersions == <<1, 2, 3, 4, 5>>
MigrationStatements == <<1, 1, 3, 3, 2>>

EmptyStore ==
    [migrations |-> {}, applied |-> <<>>, partial |-> {},
     data_sources |-> {}, tables |-> {}, configs |-> <<>>]

\* the database after database::init (mod.rs:12-22): all migrations run
MigratedStore ==
    [migrations |-> Range(MigrationVersions), applied |-> MigrationVersions,
     partial |-> {}, data_sources |-> {}, tables |-> {}, configs |-> <<>>]

(***************************************************************************)
(* Inputs of the model.                                                    *)
(***************************************************************************)
NoOpt == [some |-> FALSE, v |-> 0]
NoBool == [some |-> FALSE, v |-> FALSE]
Opt(v) == [some |-> TRUE, v |-> v]
NoSeq == [some |-> FALSE, v |-> <<>>]
NoFilters == [some |-> FALSE, v |-> [object |-> FALSE, entries |-> <<>>]]
\* JSON values of filter entries (text payloads are character sequences)
FText(chars) == [t |-> "String", n |-> 0, s |-> chars]
FNumber(n) == [t |-> "Number", n |-> n, s |-> <<>>]
FNull == [t |-> "Null", n |-> 0, s |-> <<>>]
FBool(b) == [t |-> "Bool", n |-> IF b THEN 1 ELSE 0, s |-> <<>>]
\* a filters value that is a JSON object with the given entries
FilterObject(entries) == [some |-> TRUE, v |-> [object |-> TRUE, entries |-> entries]]
\* a filters value that is not a JSON object (e.g. a string)
FilterOther == [some |-> TRUE, v |-> [object |-> FALSE, entries |-> <<>>]]

F_value == <<"v","a","l","u","e">>
F_sales == <<"s","a","l","e","s">>
F_region == <<"r","e","g","i","o","n">>
F_name == <<"n","a","m","e">>
F_deleted_at == <<"d","e","l","e","t","e","d","_","a","t">>
N_median == <<"m","e","d","i","a","n">>
N_SUM_upper == <<"S","U","M">>
A_total_sales == <<"t","o","t","a","l","_","s","a","l","e","s">>
ID_a1 == <<"a","-","1">>

T_select1 == <<"S","E","L","E","C","T"," ","1">>
T_DROP == <<"D","R","O","P"," ","T","A","B","L","E"," ","t">>
T_INSERT == <<"I","N","S","E","R","T"," ","I","N","T","O"," ","t"," ","V","A","L","U","E","S"," ","(","1",")">>

\* SQL texts submitted by clients: the four verbs in several letter cases,
\* inside identifiers, combined, and near misses
SqlTexts == {
    T_select1, T_DROP, T_INSERT,
    <<>>,
    <<"D","r","O","p"," ","t","a","b","l","e"," ","t">>,
    <<"d","r","o","p"," ","t","a","b","l","e"," ","t">>,
    <<"S","E","L","E","C","T"," ","d","e","l","e","t","e","d","_","a","t"," ","F","R","O","M"," ","t">>,
    <<"D","e","l","e","t","e"," ","F","R","O","M"," ","t">>,
    <<"D","E","L","E","T","E"," ","F","R","O","M"," ","t">>,
    <<"i","n","s","e","r","t"," ","i","n","t","o"," ","t"," ","v","a","l","u","e","s"," ","(","1",")">>,
    <<"I","n","S","e","R","t"," ","i","n","t","o"," ","t"," ","v","a","l","u","e","s"," ","(","1",")">>,
    <<"U","P","D","A","T","E"," ","t"," ","S","E","T"," ","a"," ","="," ","1">>,
    <<"s","e","l","e","c","t"," ","u","p","d","a","t","e","d","_","a","t"," ","f","r","o","m"," ","t">>,
    <<"i","n","s","e","r","t"," ","i","n","t","o"," ","t"," ","s","e","l","e","c","t"," ","1",";"," ","d","r","o","p"," ","t","a","b","l","e"," ","t">>,
    <<"S","E","L","E","C","T"," ","d","r","o"," ","p",","," ","d","e","l","e","t"," ","e",","," ","i","n","s","e","r"," ","t",","," ","u","p","d","a","t"," ","e">> }

\* column-name lists of a statement (with a repeated name)
NameLists == {<<>>, <<"a", "b">>, <<"a", "a">>}

\* row counts of a statement around the cap of the streaming path
RowCounts == {0, 1, WsRowCap - 1, WsRowCap, MaxRows}

\* the responses of the engine to a statement
EngResponses ==
    {[fail |-> "prepare", failAt |-> 0, names |-> <<>>, nrows |-> 0],
     [fail |-> "query", failAt |-> 0, names |-> <<>>, nrows |-> 0]}
    \cup {[fail |-> "none", failAt |-> 0, names |-> ns, nrows |-> n] :
             ns \in NameLists, n \in RowCounts}
    \cup {e \in [fail : {"row"}, failAt : {1, WsRowCap, WsRowCap + 1},
                 names : {<<"a", "b">>}, nrows : RowCounts] :
             e.failAt <= e.nrows + 1}

\* aggregation operations, built as the tests build them and as
\* deserialization does (an alias that is the empty string)
Operations ==
    LET plain == {AggregationOperation_new(f, o) :
                     f \in {F_value, F_sales, N_count, F_deleted_at, <<>>},
                     o \in {N_sum, N_avg, N_count, N_min, N_max,
                            N_distinct_count, N_median, <<>>}}
    IN  plain \cup {with_alias(op, a) : op \in plain, a \in {A_total_sales, <<>>}}

\* aggregation requests
AggRequests ==
    {[data_source_id |-> ID_a1, operations |-> ops, group_by |-> g,
      filters |-> f, limit |-> l] :
        ops \in {<<AggregationOperation_new(F_value, N_avg)>>,
                 <<with_alias(AggregationOperation_new(F_sales, N_sum), A_total_sales),
                   AggregationOperation_new(F_value, N_distinct_count)>>,
                 <<AggregationOperation_new(F_value, N_median)>>,
                 <<AggregationOperation_new(F_value, N_max),
                   AggregationOperation_new(F_value, N_median)>>,
                 <<AggregationOperation_new(F_deleted_at, N_count)>>,
                 <<AggregationOperation_new(F_value, N_avg),
                   AggregationOperation_new(F_value, N_median),
                   AggregationOperation_new(F_sales, N_SUM_upper)>>,
                 <<>>},
        g \in {NoSeq, Opt(<<>>), Opt(<<F_region>>), Opt(<<F_region, F_name>>)},
        f \in {NoFilters, FilterOther,
               FilterObject(<<[field |-> F_name, value |-> FText(<<"a">>)]>>),
               FilterObject(<<[field |-> F_name, value |-> FBool(TRUE)]>>),
               FilterObject(<<[field |-> F_name, value |-> FText(<<"a">>)],
                              [field |-> F_value, value |-> FNull]>>)},
        l \in {NoOpt, Opt(10)}}

\* preview requests: limits around the default and the maximum, filters
\* with text, numbers, other values, and text that holds a quote
PreviewRequests ==
    [limit : {NoOpt, Opt(0), Opt(1), Opt(PreviewMaxLimit), Opt(PreviewMaxLimit + 1)},
     offset : {NoOpt, Opt(1)},
     filters : {NoFilters, FilterOther, FilterObject(<<>>),
                FilterObject(<<[field |-> F_name, value |-> FText(<<"a">>)]>>),
                FilterObject(<<[field |-> F_name, value |-> FText(<<"a">>)],
                               [field |-> F_value, value |-> FNumber(5)]>>),
                FilterObject(<<[field |-> F_name, value |-> FNull]>>),
                FilterObject(<<[field |-> F_name, value |-> FText(<<"i","t","'","s">>)]>>),
                FilterObject(<<[field |-> F_name, value |-> FText(<<"a","'"," ","-","-">>)]>>)}]

\* the native cells handed to the value mappers: one of every kind the
\* mappers name, finite and non-finite floats, valid and invalid text, and
\* a kind none of them names
NativeCells == Range(CellCycle)

\* names given to the analytics service: the supported ones, other letter
\* cases, names of other functions, and the empty name
T_events == <<"e","v","e","n","t","s">>
\* data-source identifiers: with one dash, in the shape of a uuid, with
\* leading and adjacent dashes, without a dash, with an underscore, empty
SourceIds ==
    {ID_a1, <<"1","-","2","-","3","-","4","-","5">>, <<"-","-","a">>,
     <<"a","b">>, <<"a","_","1">>, <<>>}
F_ts == <<"t","s">>
IntervalNames == {N_hour, N_day, N_week, N_month, <<"H","o","u","r">>, <<"y","e","a","r">>, <<>>}
AggregationNames == {N_sum, N_avg, N_count, N_min, N_max, N_distinct_count, N_median}
MethodNames == {N_iqr, N_zscore, <<"I","Q","R">>, <<"m","a","d">>, <<>>}
ServiceResponses == {e \in EngResponses : e.nrows <= 1 /\ e.names # <<"a", "a">>}

\* the backing table as the engine sees it for a preview
PreviewTables ==
    {[fail |-> "none", failAt |-> 0, names |-> <<"a">>, matching |-> m] :
        m \in {0, 2, MaxTableRows}}
    \cup {[fail |-> "prepare", failAt |-> 0, names |-> <<"a">>, matching |-> 2],
          [fail |-> "row", failAt |-> 1, names |-> <<"a">>, matching |-> 2]}

(***************************************************************************)
(* Calls in isolation: the input of one call is drawn at the start, the    *)
(* action of the called function writes its return value to out.           *)
(***************************************************************************)
NoOut == [fn |-> "none"]
NoInp == [fn |-> "none"]

InitCalls ==
    /\ lock = {}
    /\ pc = [r \in 1..NumRequests |-> "idle"]
    /\ call = [r \in 1..NumRequests |-> NoInp]
    /\ stmts = {}
    /\ ret = [r \in 1..NumRequests |-> NoOut]
    /\ out = NoOut
    /\ tableVersion = 0 /\ clock = 0 /\ cache = {}
    /\ store = MigratedStore
    /\ \/ \E sql \in SqlTexts, eng \in EngResponses :
             inp = [fn |-> "execute_custom_query", sql |-> sql, eng |-> eng]
       \/ \E eng \in EngResponses :
             inp = [fn |-> "execute_query_with_params", sql |-> T_select1, eng |-> eng]
       \/ \E sql \in SqlTexts, eng \in EngResponses, alive \in BOOLEAN :
             inp = [fn |-> "recv_text_message", sql |-> sql, eng |-> eng,
                    rx_alive |-> alive]
       \/ \E request \in AggRequests, eng \in {e \in EngResponses : e.nrows <= 1} :
             inp = [fn |-> "run_aggregation", request |-> request, eng |-> eng]
       \/ \E request \in PreviewRequests, db \in PreviewTables,
             source \in {NoOpt, Opt(MaxTableRows)} :
             inp = [fn |-> "preview_data", id |-> ID_a1, request |-> request,
                    source |-> source, db |-> db]
       \/ \E columns \in NameLists, n \in {0, 1, 2} :
             inp = [fn |-> "QueryResult_new", columns |-> columns,
                    data |-> [i \in 1..n |-> <<JNumber(i)>>]]
       \/ inp = [fn |-> "QueryResult_empty"]
       \/ \E op \in Operations : inp = [fn |-> "get_alias", op |-> op]
       \/ \E cell \in NativeCells : inp = [fn |-> "map_value", cell |-> cell]
       \/ \E interval \in IntervalNames, aggregation \in AggregationNames,
             eng \in ServiceResponses :
             inp = [fn |-> "time_series_aggregation", table_name |-> T_events,
                    time_column |-> F_ts, value_column |-> F_value,
                    interval |-> interval, aggregation |-> aggregation, eng |-> eng]
       \/ \E id \in SourceIds : inp = [fn |-> "table_name", id |-> id]
       \/ \E method \in MethodNames, threshold \in {NoOpt, Opt(2)},
             eng \in ServiceResponses :
             inp = [fn |-> "detect_outliers", table_name |-> T_events,
                    column_name |-> F_value, method |-> method,
                    threshold |-> threshold, eng |-> eng]

Frame == UNCHANGED <<lock, pc, call, stmts, ret, inp, tableVersion, store, clock, cache>>

Call_execute_custom_query ==
    /\ inp.fn = "execute_custom_query" /\ out = NoOut
    /\ out' = [fn |-> inp.fn, r |-> execute_custom_query(inp.sql, inp.eng)]
    /\ Frame

Call_execute_query_with_params ==
    /\ inp.fn = "execute_query_with_params" /\ out = NoOut
    /\ out' = [fn |-> inp.fn, r |-> execute_query_with_params(inp.sql, inp.eng)]
    /\ Frame

Call_recv_text_message ==
    /\ inp.fn = "recv_text_message" /\ out = NoOut
    /\ out' = [fn |-> inp.fn, r |-> recv_text_message(inp.sql, inp.eng, inp.rx_alive)]
    /\ Frame

Call_run_aggregation ==
    /\ inp.fn = "run_aggregation" /\ out = NoOut
    /\ out' = [fn |-> inp.fn, r |-> run_aggregation(inp.request, inp.eng)]
    /\ Frame

Call_preview_data ==
    /\ inp.fn = "preview_data" /\ out = NoOut
    /\ out' = [fn |-> inp.fn,
               r |-> preview_data(inp.id, inp.request, inp.source, inp.db)]
    /\ Frame

Call_QueryResult_new ==
    /\ inp.fn = "QueryResult_new" /\ out = NoOut
    /\ out' = [fn |-> inp.fn, r |-> QueryResult_new(inp.columns, inp.data)]
    /\ Frame

Call_QueryResult_empty ==
    /\ inp.fn = "QueryResult_empty" /\ out = NoOut
    /\ out' = [fn |-> inp.fn, r |-> QueryResult_empty]
    /\ Frame

\* get_alias takes &self: the receiver after the call is the receiver
Call_get_alias ==
    /\ inp.fn = "get_alias" /\ out = NoOut
    /\ out' = [fn |-> inp.fn, r |-> get_alias(inp.op), self |-> inp.op]
    /\ Frame

\* the match on row.get_ref(i) of the envelope path (execute_custom_query)
\* and of the three other paths (execute_websocket_query,
\* execute_query_with_params, preview_data) applied to one cell
Call_map_value ==
    /\ inp.fn = "map_value" /\ out = NoOut
    /\ out' = [fn |-> inp.fn,
               r |-> [envelope |-> map_value_custom(inp.cell),
                      object |-> map_value_ref(inp.cell)]]
    /\ Frame

Call_time_series_aggregation ==
    /\ inp.fn = "time_series_aggregation" /\ out = NoOut
    /\ out' = [fn |-> inp.fn,
               r |-> time_series_aggregation(inp.table_name, inp.time_column,
                        inp.value_column, inp.interval, inp.aggregation, inp.eng)]
    /\ Frame

Call_detect_outliers ==
    /\ inp.fn = "detect_outliers" /\ out = NoOut
    /\ out' = [fn |-> inp.fn,
               r |-> detect_outliers(inp.table_name, inp.column_name, inp.method,
                                     inp.threshold, inp.eng)]
    /\ Frame

\* the table name each call site derives for one identifier
Call_table_name ==
    /\ inp.fn = "table_name" /\ out = NoOut
    /\ out' = [fn |-> inp.fn,
               r |-> [site \in TableNameSites |-> table_name_at(site, inp.id)]]
    /\ Frame

NextCalls ==
    \/ Call_execute_custom_query
    \/ Call_execute_query_with_params
    \/ Call_recv_text_message
    \/ Call_run_aggregation
    \/ Call_preview_data
    \/ Call_QueryResult_new
    \/ Call_QueryResult_empty
    \/ Call_get_alias
    \/ Call_map_value
    \/ Call_time_series_aggregation
    \/ Call_detect_outliers
    \/ Call_table_name

SpecCalls == InitCalls /\ [][NextCalls]_vars

(***************************************************************************)
(* Concurrent requests on the shared connection.                           *)
(*                                                                         *)
(* lock  : the tasks that hold a guard of the tokio Mutex around the one   *)
(*         Connection of the DatabasePool                                  *)
(* pc    : where each request task is: idle, lock_wait (in                 *)
(*         conn.lock().await), locked (guard held, before prepare),        *)
(*         iterating (statement prepared, rows being fetched), private     *)
(*         (running statements on a connection of its own), done           *)
(* call  : the running call of each task                                   *)
(* stmts : the tasks with a live prepared statement on the connection      *)
(* ret   : what the last call of each task returned                        *)
(* cache : the QueryCache values that exist in the process                 *)
(* clock : the instant Utc::now() returns                                  *)
(***************************************************************************)
Requests == 1..NumRequests

\* services/analytics.rs: the analytics functions run their statements one
\* after the other through execute_query_with_params: one each, and one
\* per ordered pair of columns for correlation_matrix (here two columns)
ServiceQueries ==
    [calculate_statistics |-> 1, detect_outliers |-> 1, moving_average |-> 1,
     correlation_matrix |-> 2 * 2]

\* the calls of the concurrent model: the handlers that take SQL text
\* (execute_query with the cache field of its QueryRequest absent or
\* true), an aggregation, a preview, and the analytics service functions
Calls ==
    {[fn |-> "execute_query", arg |-> [sql |-> sql, cache |-> flag],
      queries |-> 1] :
        sql \in {T_select1, T_DROP}, flag \in {NoBool, Opt(TRUE)}}
    \cup {[fn |-> "websocket", arg |-> [sql |-> sql], queries |-> 1] :
        sql \in {T_select1, T_INSERT}}
    \cup {[fn |-> "run_aggregation",
           arg |-> [request |-> [data_source_id |-> ID_a1,
                                 operations |-> <<AggregationOperation_new(F_value, o)>>,
                                 group_by |-> Opt(<<F_region>>),
                                 filters |-> NoFilters, limit |-> NoOpt]],
           queries |-> 1] : o \in {N_avg, N_median}}
    \cup {[fn |-> "preview_data",
           arg |-> [id |-> ID_a1, source |-> src,
                    request |-> [limit |-> NoOpt, offset |-> NoOpt,
                                 filters |-> NoFilters]],
           queries |-> 1] : src \in {NoOpt, Opt(2)}}
    \cup {[fn |-> "execute_query_with_params", arg |-> [sql |-> T_select1],
           queries |-> n] : n \in {ServiceQueries[f] : f \in DOMAIN ServiceQueries}}

\* the engine's responses in the concurrent model: prepare fails, or the
\* statement yields rows (more than the streaming cap for the WebSocket
\* path), or a row fetch fails
CallResponses(c) ==
    {[fail |-> "prepare", failAt |-> 0, names |-> <<>>, nrows |-> 0],
     [fail |-> "row", failAt |-> 1, names |-> <<"a">>, nrows |-> 1],
     [fail |-> "none", failAt |-> 0, names |-> <<"a">>, nrows |-> 1]}
    \cup IF c.fn = "websocket"
         THEN {[fail |-> "none", failAt |-> 0, names |-> <<"a">>, nrows |-> MaxRows]}
         ELSE {}

\* the table behind a response: as many matching rows as the response has
TableOf(eng) ==
    [fail |-> eng.fail, failAt |-> eng.failAt, names |-> eng.names,
     matching |-> eng.nrows]

\* the code a call runs between acquiring the guard and returning
Body(c, eng) ==
    CASE c.fn = "execute_query" -> execute_custom_query(c.arg.sql, eng)
      [] c.fn = "websocket" -> execute_websocket_query(c.arg.sql, eng)
      [] c.fn = "run_aggregation" -> run_aggregation(c.arg.request, eng)
      [] c.fn = "preview_data" ->
             preview_data(c.arg.id, c.arg.request, c.arg.source, TableOf(eng))
      [] OTHER -> execute_query_with_params(c.arg.sql, eng)

\* the number of rows of a returned value
RowsOf(c, res) ==
    IF c.fn = "websocket" THEN Len(res.value) ELSE Len(res.value.data)

\* the response with its row stream cut off: what the call sees before
\* its row loop
BeforeRows(eng) ==
    [eng EXCEPT !.nrows = 0, !.fail = IF @ = "row" THEN "none" ELSE @]

\* the call gets past validation, prepare and query and enters its row
\* loop; this does not depend on the rows
EntersRowLoop(c, eng) == Body(c, BeforeRows(eng)).err = NoErr

\* mutant: the lock hands out a guard whether or not one exists
lock_always_available(l) == TRUE

\* tokio::sync::Mutex::lock: the future resolves only while no guard exists
lock_available(l) == l = {}

\* mutant: the guard outlives a call that returns an error
guard_kept_on_error(l, r, res) == IF res.err = NoErr THEN l \ {r} ELSE l

\* the guard (conn_guard) is a local of the call: it is dropped when the
\* call returns res, whatever res is
guard_drop(l, r, res) == l \ {r}

\* config.rs:22  the default cache_ttl, the TTL of the QueryCache test
CacheTtl == 300

\* mutant: a successful execute_query with cache = true keeps its result
\* in a QueryCache entry
entries_with_result(entries, c, res, now) ==
    IF c.fn = "execute_query" /\ c.arg.cache = Opt(TRUE) /\ res.err = NoErr
    THEN entries \cup {QueryCache_new(<<"h">>, c.arg.sql, res.value, NoOpt,
                                      CacheTtl, now, Cardinality(entries) + 1)}
    ELSE entries

\* the QueryCache values in the process after a call has returned res: the
\* handlers read neither request.cache nor any QueryCache and build none
\* (analytics.rs:12-31, 34-121; websocket.rs), so the entries are the ones
\* there were
entries_after_call(entries, c, res, now) == entries

\* the cache field of the request of a call (QueryRequest only)
cache_flag(c) == IF c.fn = "execute_query" THEN c.arg.cache ELSE NoBool

Summary(c, res, eng) ==
    [fn |-> c.fn, cache |-> cache_flag(c),
     err |-> res.err, prepared |-> res.prepared, locks |-> c.locks,
     rows |-> RowsOf(c, res),
     truncated |-> (res.err = NoErr /\ RowsOf(c, res) < eng.nrows)]

Init ==
    /\ lock = {}
    /\ pc = [r \in Requests |-> "idle"]
    /\ call = [r \in Requests |-> NoInp]
    /\ stmts = {}
    /\ ret = [r \in Requests |-> NoOut]
    /\ inp = NoInp
    /\ out = NoOut
    /\ tableVersion = 0 /\ clock = 0 /\ cache = {}
    /\ store = MigratedStore

\* a request arrives: the handler starts and reaches conn.lock().await
StartCall(r) ==
    /\ pc[r] = "idle"
    /\ \E c \in Calls :
          call' = [call EXCEPT ![r] =
                      [fn |-> c.fn, arg |-> c.arg, queries |-> c.queries,
                       locks |-> 0]]
    /\ pc' = [pc EXCEPT ![r] = "lock_wait"]
    /\ ret' = [ret EXCEPT ![r] = NoOut]
    /\ UNCHANGED <<lock, stmts, inp, out, tableVersion, store, clock, cache>>

\* conn.lock().await resolves
Acquire(r) ==
    /\ pc[r] = "lock_wait"
    /\ lock_available(lock)
    /\ lock' = lock \cup {r}
    /\ call' = [call EXCEPT ![r].locks = @ + 1]
    /\ pc' = [pc EXCEPT ![r] = "locked"]
    /\ UNCHANGED <<stmts, ret, inp, out, tableVersion, store, clock, cache>>

\* the call returns res: statement and guard are dropped; a service
\* function with statements left to run goes on to its next
\* execute_query_with_params call, every other call is done
Return(r, res, eng) ==
    /\ stmts' = stmts \ {r}
    /\ lock' = guard_drop(lock, r, res)
    /\ ret' = [ret EXCEPT ![r] = Summary(call[r], res, eng)]
    /\ cache' = entries_after_call(cache, call[r], res, clock)
    /\ IF res.err = NoErr /\ call[r].queries > 1
       THEN /\ pc' = [pc EXCEPT ![r] = "lock_wait"]
            /\ call' = [call EXCEPT ![r].queries = @ - 1]
       ELSE /\ pc' = [pc EXCEPT ![r] = "done"]
            /\ call' = [call EXCEPT ![r] = NoInp]

\* with the guard held: validation, prepare and query; the call either
\* returns early (rejected, not found, engine error) or has a live
\* statement and enters its row loop
Prepare(r) ==
    /\ pc[r] = "locked"
    /\ \E eng \in CallResponses(call[r]) :
          IF EntersRowLoop(call[r], eng)
          THEN /\ stmts' = stmts \cup {r}
               /\ pc' = [pc EXCEPT ![r] = "iterating"]
               /\ UNCHANGED <<lock, call, ret, cache>>
          ELSE Return(r, Body(call[r], BeforeRows(eng)), eng)
    /\ UNCHANGED <<inp, out, tableVersion, store, clock>>

\* the row loop runs to its end (exhaustion, fetch error or the break of
\* the WebSocket path) on the rows the engine yields, and the call returns
Iterate(r) ==
    /\ pc[r] = "iterating"
    /\ \E eng \in CallResponses(call[r]) :
          /\ EntersRowLoop(call[r], eng)
          /\ Return(r, Body(call[r], eng), eng)
    /\ UNCHANGED <<inp, out, tableVersion, store, clock>>

\* the response has been handed to the client; the task ends
Finish(r) ==
    /\ pc[r] = "done"
    /\ pc' = [pc EXCEPT ![r] = "idle"]
    /\ ret' = [ret EXCEPT ![r] = NoOut]
    /\ UNCHANGED <<lock, call, stmts, inp, out, tableVersion, store, clock, cache>>

\* what get_stats returns: it never asked for the pool's lock
StatsReturn(err, prepared) ==
    [fn |-> "get_stats", cache |-> NoBool, err |-> err, prepared |-> prepared,
     locks |-> 0, rows |-> 0, truncated |-> FALSE]

\* system.rs:46-49, connection.rs:20-34, 52-54  get_stats builds a
\* ConnectionManager on "dashboard.db"; get_database_info opens a
\* connection of its own (Connection::open), puts it in a new Mutex and
\* locks that one.  The pool's lock is not requested.  The open can fail.
get_stats(r) ==
    /\ pc[r] = "idle"
    /\ \E opened \in BOOLEAN :
          IF opened
          THEN /\ pc' = [pc EXCEPT ![r] = "private"]
               /\ call' = [call EXCEPT ![r] =
                              [fn |-> "get_stats", arg |-> [path |-> "dashboard.db"],
                               queries |-> 3, locks |-> 0]]
               /\ ret' = [ret EXCEPT ![r] = NoOut]
          ELSE /\ pc' = [pc EXCEPT ![r] = "done"]
               /\ ret' = [ret EXCEPT ![r] = StatsReturn(EngineErr("open"), 0)]
               /\ UNCHANGED call
    /\ UNCHANGED <<lock, stmts, inp, out, tableVersion, store, clock, cache>>

\* connection.rs:56-79  the three statements of get_database_info (version,
\* database_size, table count) run on the private connection, one after
\* the other; the first that fails ends the call
get_database_info(r) ==
    /\ pc[r] = "private"
    /\ \E failed \in 0..call[r].queries :
          ret' = [ret EXCEPT ![r] =
                    IF failed = 0 THEN StatsReturn(NoErr, call[r].queries)
                    ELSE StatsReturn(EngineErr("query"), failed)]
    /\ pc' = [pc EXCEPT ![r] = "done"]
    /\ call' = [call EXCEPT ![r] = NoInp]
    /\ UNCHANGED <<lock, stmts, inp, out, tableVersion, store, clock, cache>>

Next ==
    \E r \in Requests :
        \/ StartCall(r)
        \/ Acquire(r)
        \/ Prepare(r)
        \/ Iterate(r)
        \/ Finish(r)
        \/ get_stats(r)
        \/ get_database_info(r)

Spec == Init /\ [][Next]_vars

(***************************************************************************)
(* Cache entries over time: a caller (as the test of models/query.rs       *)
(* does) builds entries with QueryCache::new and asks is_expired while     *)
(* the clock advances.  The clock does not go back.                        *)
(*                                                                         *)
(* cache : the entries built so far                                        *)
(* inp   : the ttl_seconds argument of each QueryCache::new call; the      *)
(*         entry of the i-th call has id i                                 *)
(* out   : the last is_expired call: its entry, the instant and the answer *)
(***************************************************************************)
\* TTLs handed to QueryCache::new: none left, one second, and the 300
\* seconds of the test and of the configuration default
TTLs == {0, 1, CacheTtl}

InitCache ==
    /\ lock = {}
    /\ pc = [r \in Requests |-> "idle"]
    /\ call = [r \in Requests |-> NoInp]
    /\ stmts = {}
    /\ ret = [r \in Requests |-> NoOut]
    /\ inp = <<>>
    /\ out = NoOut
    /\ tableVersion = 0 /\ clock = 0 /\ cache = {}
    /\ store = MigratedStore

\* let cache = QueryCache::new("hash123", "SELECT ..", result, None, ttl)
Call_QueryCache_new ==
    /\ Len(inp) < MaxEntries
    /\ \E ttl \in TTLs :
          /\ cache' = cache \cup
                {QueryCache_new(<<"h">>, T_select1, QueryResult_empty, NoOpt,
                                ttl, clock, Len(inp) + 1)}
          /\ inp' = Append(inp, ttl)
    /\ UNCHANGED <<lock, pc, call, stmts, ret, out, tableVersion, store, clock>>

\* cache.is_expired() on one of the entries; &self: the entry is only read
Call_is_expired ==
    /\ \E self \in cache :
          out' = [fn |-> "is_expired", entry |-> self, now |-> clock,
                  expired |-> is_expired(self, clock)]
    /\ UNCHANGED <<lock, pc, call, stmts, ret, inp, tableVersion, store, clock, cache>>

\* time passes: by a second (up to MaxClock), or to the second before,
\* of, or after the expiry of an entry
Tick ==
    /\ \E t \in (IF clock < MaxClock THEN {clock + 1} ELSE {})
                 \cup {e.expires_at + d : e \in cache, d \in {-1, 0, 1}} :
          /\ t > clock
          /\ clock' = t
    /\ UNCHANGED <<lock, pc, call, stmts, ret, inp, out, tableVersion, store, cache>>

NextCache ==
    \/ Call_QueryCache_new
    \/ Call_is_expired
    \/ Tick

SpecCache == InitCache /\ [][NextCache]_vars

(***************************************************************************)
(* correlation_matrix (services/analytics.rs) next to requests that write  *)
(* to the table.  One task runs correlation_matrix: for every ordered pair *)
(* of its columns one execute_query_with_params call, each of which takes  *)
(* and drops the connection lock on its own.  The other tasks run an       *)
(* INSERT through execute_query (the general denylist lets it through).    *)
(*                                                                         *)
(* tableVersion : the number of INSERTs the table has received             *)
(* call[Matrix] : the locals of correlation_matrix: columns, the loop      *)
(*                positions i (col1) and j (col2), col1_correlations       *)
(*                (inner) and correlations                                 *)
(* Correlations are counted in hundredths.                                 *)
(***************************************************************************)
Matrix == 1
Writers == Requests \ {Matrix}

\* analytics.rs:181-186  the statement text of one pair
corr_sql(col1, col2, table_name) ==
    Concat(<<
         <<"S","E","L","E","C","T"," ","C","O","R","R","(">>, col1,
         <<","," ">>, col2,
         <<")"," ","a","s"," ","c","o","r","r","e","l","a","t","i","o","n"," ","F","R","O","M"," ">>,
         table_name,
         <<" ","W","H","E","R","E"," ">>, col1,
         <<" ","I","S"," ","N","O","T"," ","N","U","L","L"," ","A","N","D"," ">>, col2,
         <<" ","I","S"," ","N","O","T"," ","N","U","L","L">>>>)

\* the engine's CORR of two columns over the table as it is after v
\* INSERTs: NULL over the empty table, 1.0 for a column with itself, and a
\* value that depends on the rows otherwise; CORR(a, b) = CORR(b, a) over
\* the same rows
CorrCell(col1, col2, v) ==
    IF v = 0 THEN NullCell
    ELSE IF col1 = col2 THEN [kind |-> "Real", n |-> 100, s |-> "", ok |-> TRUE]
    ELSE [kind |-> "Real", n |-> 10 * v, s |-> "", ok |-> TRUE]

\* the engine's responses to a CORR statement: prepare fails, or the
\* statement yields its one row (an aggregate without GROUP BY)
CorrResponses ==
    {[fail |-> "prepare", failAt |-> 0, names |-> <<>>, nrows |-> 0],
     [fail |-> "none", failAt |-> 0, names |-> <<"correlation">>, nrows |-> 1]}

\* the engine's responses to an INSERT: prepare fails, or it runs and
\* yields no row
InsertResponses ==
    {[fail |-> "prepare", failAt |-> 0, names |-> <<>>, nrows |-> 0],
     [fail |-> "none", failAt |-> 0, names |-> <<>>, nrows |-> 0]}

\* duckdb.rs:21-60  execute_query_with_params on a statement of one column
\* whose row, if there is one, holds cell
execute_corr_query(sql, eng, cell) ==
    IF eng.fail = "prepare" THEN Failed(EngineErr("prepare"), 1)
    ELSE Succeeded(QueryResult_new(eng.names,
                      IF eng.nrows = 0 THEN <<>>
                      ELSE << <<map_value_ref(cell)>> >>), 1)

\* analytics.rs:190-194  result.data[0][0].as_f64().unwrap_or(0.0), and
\* 0.0 for a result without rows
correlation_of(result) ==
    IF result.data # <<>>
    THEN IF result.data[1][1].t = "Number" THEN result.data[1][1].n ELSE 0
    ELSE 0

ColumnLists ==
    {<<>>, <<F_value>>, <<F_value, F_sales>>, <<F_sales, F_value, F_sales>>}

MatrixReturn(c, err, value) ==
    [fn |-> c.fn, err |-> err, value |-> value, columns |-> c.columns,
     locks |-> c.locks]

InitMatrix ==
    /\ lock = {}
    /\ pc = [r \in Requests |-> "idle"]
    /\ call = [r \in Requests |-> NoInp]
    /\ stmts = {}
    /\ ret = [r \in Requests |-> NoOut]
    /\ inp = NoInp
    /\ out = NoOut
    /\ tableVersion = 0 /\ clock = 0 /\ cache = {}
    /\ store = MigratedStore

\* correlation_matrix is called: with no columns it returns the empty
\* mapping at once, otherwise it reaches the lock().await of its first
\* pairwise query
StartMatrix ==
    /\ pc[Matrix] = "idle"
    /\ \E columns \in ColumnLists :
          LET c == [fn |-> "correlation_matrix", table_name |-> T_events,
                    columns |-> columns, i |-> 1, j |-> 1, inner |-> <<>>,
                    correlations |-> <<>>, locks |-> 0]
          IN  IF columns = <<>>
              THEN /\ pc' = [pc EXCEPT ![Matrix] = "done"]
                   /\ ret' = [ret EXCEPT ![Matrix] = MatrixReturn(c, NoErr, <<>>)]
                   /\ UNCHANGED call
              ELSE /\ pc' = [pc EXCEPT ![Matrix] = "lock_wait"]
                   /\ ret' = [ret EXCEPT ![Matrix] = NoOut]
                   /\ call' = [call EXCEPT ![Matrix] = c]
    /\ UNCHANGED <<lock, stmts, inp, out, tableVersion, store, clock, cache>>

\* one pairwise query with the guard held, on the table as it is now; the
\* guard is dropped when execute_query_with_params returns.  An error ends
\* the call (`?`); otherwise the value is inserted and the loops go on
PairQuery ==
    /\ pc[Matrix] = "locked"
    /\ \E eng \in CorrResponses :
          LET c == call[Matrix]
              col1 == c.columns[c.i]
              col2 == c.columns[c.j]
              sql == corr_sql(col1, col2, c.table_name)
              res == execute_corr_query(sql, eng, CorrCell(col1, col2, tableVersion))
              inner == (col2 :> correlation_of(res.value)) @@ c.inner
              correlations == (col1 :> inner) @@ c.correlations
          IN  IF res.err # NoErr
              THEN /\ pc' = [pc EXCEPT ![Matrix] = "done"]
                   /\ ret' = [ret EXCEPT ![Matrix] = MatrixReturn(c, res.err, <<>>)]
                   /\ call' = [call EXCEPT ![Matrix] = NoInp]
              ELSE IF c.j < Len(c.columns)
              THEN /\ pc' = [pc EXCEPT ![Matrix] = "lock_wait"]
                   /\ call' = [call EXCEPT ![Matrix].j = c.j + 1,
                                           ![Matrix].inner = inner]
                   /\ UNCHANGED ret
              ELSE IF c.i < Len(c.columns)
              THEN /\ pc' = [pc EXCEPT ![Matrix] = "lock_wait"]
                   /\ call' = [call EXCEPT ![Matrix].i = c.i + 1,
                                           ![Matrix].j = 1,
                                           ![Matrix].inner = <<>>,
                                           ![Matrix].correlations = correlations]
                   /\ UNCHANGED ret
              ELSE /\ pc' = [pc EXCEPT ![Matrix] = "done"]
                   /\ ret' = [ret EXCEPT ![Matrix] =
                                 MatrixReturn(c, NoErr, correlations)]
                   /\ call' = [call EXCEPT ![Matrix] = NoInp]
    /\ lock' = lock \ {Matrix}
    /\ UNCHANGED <<stmts, inp, out, tableVersion, store, clock, cache>>

\* another request arrives: execute_query with an INSERT
StartWrite(w) ==
    /\ pc[w] = "idle"
    /\ tableVersion + Cardinality({r \in Writers : pc[r] # "idle"}) < MaxWrites
    /\ call' = [call EXCEPT ![w] =
                   [fn |-> "execute_query",
                    arg |-> [sql |-> T_INSERT, cache |-> NoBool],
                    queries |-> 1, locks |-> 0]]
    /\ pc' = [pc EXCEPT ![w] = "lock_wait"]
    /\ ret' = [ret EXCEPT ![w] = NoOut]
    /\ UNCHANGED <<lock, stmts, inp, out, tableVersion, store, clock, cache>>

\* the INSERT runs with the guard held; if the engine accepts it the table
\* has one more row
Write(w) ==
    /\ pc[w] = "locked"
    /\ \E eng \in InsertResponses :
          LET res == execute_custom_query(call[w].arg.sql, eng) IN
          /\ tableVersion' = IF res.err = NoErr THEN tableVersion + 1
                              ELSE tableVersion
          /\ ret' = [ret EXCEPT ![w] = Summary(call[w], res, eng)]
    /\ lock' = lock \ {w}
    /\ pc' = [pc EXCEPT ![w] = "done"]
    /\ call' = [call EXCEPT ![w] = NoInp]
    /\ UNCHANGED <<stmts, inp, out, store, clock, cache>>

NextMatrix ==
    \/ StartMatrix
    \/ PairQuery
    \/ \E r \in Requests : Acquire(r)
    \/ \E r \in Requests : Finish(r)
    \/ \E w \in Writers : StartWrite(w)
    \/ \E w \in Writers : Write(w)

SpecMatrix == InitMatrix /\ [][NextMatrix]_vars

(***************************************************************************)
(* Properties of the concurrent requests (Spec).                           *)
(***************************************************************************)
\* C1: in every interleaving of requests the lock has at most one holder,
\* at most one request has a statement on the connection, and a request
\* prepares or iterates a statement only while it holds the lock
Thm_C1_OneRequestOnConnection ==
    /\ Cardinality(lock) <= 1
    /\ Cardinality(stmts) <= 1
    /\ \A r \in Requests :
          (pc[r] \in {"locked", "iterating"} \/ r \in stmts) => r \in lock

\* a WebSocket query is iterating its statement while a service query of
\* another request waits in conn.lock().await
Wit_C1_ContendedConnection ==
    \E r1, r2 \in Requests :
        /\ r1 # r2
        /\ pc[r1] = "iterating" /\ r1 \in stmts /\ call[r1].fn = "websocket"
        /\ pc[r2] = "lock_wait" /\ call[r2].fn = "execute_query_with_params"

\* C2: a call that is not between its lock().await and its return holds
\* neither the lock nor a statement: whatever the call returned (result,
\* engine error, rejection, truncated rows), its guard is gone
Thm_C2_GuardDroppedOnReturn ==
    \A r \in Requests :
        pc[r] \notin {"locked", "iterating"} => (r \notin lock /\ r \notin stmts)

\* one request has returned a rejection and another the truncated rows of
\* the WebSocket path, each after acquiring the lock, and the lock is free
Wit_C2_ReturnedOnEarlyExitAndBreak ==
    \E r1, r2 \in Requests :
        /\ pc[r1] = "done" /\ ret[r1].locks = 1
        /\ ret[r1].err.kind \in {"Forbidden", "BadRequest"}
        /\ pc[r2] = "done" /\ ret[r2].locks = 1 /\ ret[r2].truncated
        /\ lock = {}

\* C3 (as claimed): a request that returned a validation error or a
\* forbidden-statement error has neither acquired the connection lock nor
\* prepared a statement
Claim_C3_RejectedWithoutLock ==
    \A r \in Requests :
        (pc[r] = "done" /\ ret[r].err.kind \in {"Forbidden", "BadRequest"})
            => (ret[r].locks = 0 /\ ret[r].prepared = 0)

ExecutionPath == {"execute_query", "run_aggregation", "websocket"}

\* C20: in every interleaving no QueryCache entry exists, and every
\* execute_query, run_aggregation and WebSocket query call that the
\* validators let through has handed its statement to the engine (one
\* prepare), also when its request carries cache = true
Thm_C20_CacheNeverUsed ==
    /\ cache = {}
    /\ \A r \in Requests :
          (pc[r] = "done" /\ ret[r].fn \in ExecutionPath
             /\ ret[r].err.kind \in {"none", "Engine"})
              => ret[r].prepared = 1

\* two requests have run the same execute_query text with cache = true,
\* one after the other on the lock, and each got its row from the engine
Wit_C20_RepeatedQueryExecutedAgain ==
    \E r1, r2 \in Requests :
        /\ r1 # r2
        /\ \A r \in {r1, r2} :
              /\ pc[r] = "done" /\ ret[r].fn = "execute_query"
              /\ ret[r].cache = Opt(TRUE) /\ ret[r].err = NoErr
              /\ ret[r].prepared = 1 /\ ret[r].rows = 1

\* C22 (as claimed): every request that is running statements at the
\* engine holds the lock of the pool's connection, and every request that
\* has sent statements to the engine acquired that lock
Claim_C22_OnlyPoolConnection ==
    \A r \in Requests :
        /\ pc[r] \in {"locked", "iterating", "private"} => r \in lock
        /\ (pc[r] = "done" /\ ret[r].prepared > 0) => ret[r].locks > 0

(***************************************************************************)
(* Properties of the calls in isolation (SpecCalls).                       *)
(***************************************************************************)
Returned(fn) == inp.fn = fn /\ out.fn = fn

\* the text holds one of the verbs, in any letter case
HoldsVerb(sql, verbs) == \E v \in verbs : contains(to_lowercase(sql), v)

\* C4: in general mode (execute_custom_query) every text whose lower-cased
\* form contains "drop" or "delete" anywhere, also inside an identifier, is
\* rejected with the forbidden-statement error and no statement is prepared
Thm_C4_GeneralDenylistRejects ==
    (Returned("execute_custom_query") /\ HoldsVerb(inp.sql, {S_drop, S_delete}))
        => (out.r.err = ForbiddenErr /\ out.r.prepared = 0)

\* a mixed-case DROP and an identifier deleted_at have been rejected
Wit_C4_IdentifierRejected ==
    /\ Returned("execute_custom_query")
    /\ contains(inp.sql, F_deleted_at)
    /\ out.r.err = ForbiddenErr /\ out.r.prepared = 0

\* C5: a text with "insert" or "update" (any case) and neither "drop" nor
\* "delete" is rejected by the WebSocket path before any statement is
\* prepared, and accepted by execute_custom_query, which prepares it
Thm_C5_ReadOnlyStricterThanGeneral ==
    LET hit == /\ HoldsVerb(inp.sql, {S_insert, S_update})
               /\ ~HoldsVerb(inp.sql, {S_drop, S_delete})
    IN  /\ (Returned("recv_text_message") /\ hit)
              => (out.r.query.err = WsForbiddenErr /\ out.r.query.prepared = 0)
        /\ (Returned("execute_custom_query") /\ hit)
              => /\ out.r.err.kind # "Forbidden"
                 /\ out.r.prepared = 1
                 /\ (inp.eng.fail = "none" => out.r.err = NoErr)

\* the WebSocket path has rejected an INSERT that the engine would run
Wit_C5_InsertRejectedOnWebSocket ==
    /\ Returned("recv_text_message")
    /\ inp.sql = T_INSERT /\ inp.eng.fail = "none"
    /\ out.r.query.err = WsForbiddenErr /\ out.r.query.prepared = 0

\* C6: an accepted WebSocket query returns at most 1000 row objects, and
\* they are the first rows of the engine's row stream, in order
Thm_C6_WebSocketRowsCapped ==
    (Returned("recv_text_message") /\ out.r.query.err = NoErr)
        => /\ Len(out.r.query.value) <= 1000
           /\ Len(out.r.query.value) <= inp.eng.nrows
           /\ \A i \in 1..Len(out.r.query.value) :
                 out.r.query.value[i] = row_object(inp.eng.names, i)

\* a statement that yields more than 1000 rows has been answered
Wit_C6_LongStreamAnswered ==
    /\ Returned("recv_text_message")
    /\ inp.eng.nrows > 1000 /\ inp.eng.names # <<>>
    /\ out.r.query.err = NoErr /\ Len(out.r.query.value) = 1000

\* C7 (as claimed): the effective limit of a preview is
\* min(requested limit, 10000), 1000 when none is given, and preview_rows
\* never exceeds it, with or without filters and for any offset
Claim_C7_PreviewRowsWithinLimit ==
    (Returned("preview_data") /\ out.r.err = NoErr)
        => LET requested == IF inp.request.limit.some
                            THEN inp.request.limit.v ELSE 1000
               effective == IF requested < 10000 THEN requested ELSE 10000
           IN  /\ preview_limit(inp.request) = effective
               /\ out.r.value.preview_rows <= effective

\* C8: when the engine would yield more rows than the cap, the WebSocket
\* query returns Ok with exactly 1000 rows, and what the connection's
\* channel receives is one query:result message with those rows and no
\* error (nothing when the channel has no receiver left)
Thm_C8_TruncationIsSuccess ==
    (/\ Returned("recv_text_message")
     /\ ~HoldsVerb(inp.sql, {S_drop, S_delete, S_insert, S_update})
     /\ inp.eng.nrows > WsRowCap
     /\ (inp.eng.fail = "none" \/ (inp.eng.fail = "row" /\ inp.eng.failAt > WsRowCap)))
        => /\ out.r.query.err = NoErr
           /\ Len(out.r.query.value) = 1000
           /\ \A k \in 1..Len(out.r.sent) :
                 /\ out.r.sent[k].type = "query:result"
                 /\ out.r.sent[k].error = NoneText
                 /\ out.r.sent[k].data = out.r.query.value
           /\ inp.rx_alive => Len(out.r.sent) = 1

\* the client of a truncated query has been sent the result without error
Wit_C8_TruncatedResultSent ==
    /\ Returned("recv_text_message")
    /\ inp.eng.nrows > WsRowCap /\ inp.rx_alive
    /\ Len(out.r.sent) = 1
    /\ out.r.sent[1].type = "query:result"
    /\ out.r.sent[1].error = NoneText
    /\ Len(out.r.sent[1].data) = WsRowCap

\* C9: every envelope returned by execute_custom_query,
\* execute_query_with_params and run_aggregation has row_count equal to its
\* number of rows and rows as wide as its column list; every envelope built
\* by QueryResult::new or QueryResult::empty has row_count equal to its
\* number of rows
Thm_C9_EnvelopeCounts ==
    /\ \A fn \in {"execute_custom_query", "execute_query_with_params",
                  "run_aggregation"} :
          (Returned(fn) /\ out.r.err = NoErr)
              => /\ out.r.value.row_count = Len(out.r.value.data)
                 /\ \A i \in 1..Len(out.r.value.data) :
                       Len(out.r.value.data[i]) = Len(out.r.value.columns)
    /\ \A fn \in {"QueryResult_new", "QueryResult_empty"} :
          Returned(fn) => out.r.row_count = Len(out.r.data)

\* an envelope with several rows of two cells has been returned
Wit_C9_EnvelopeReturned ==
    /\ Returned("execute_query_with_params")
    /\ out.r.err = NoErr
    /\ out.r.value.row_count > 1 /\ Len(out.r.value.columns) = 2

\* C10: get_alias returns the explicit alias when one is set, otherwise
\* operation + "_" + field, and leaves the operation as it was
Thm_C10_GetAlias ==
    Returned("get_alias")
        => /\ inp.op.alias.some => out.r = inp.op.alias.v
           /\ ~inp.op.alias.some => out.r = inp.op.operation \o <<"_">> \o inp.op.field
           /\ out.self = inp.op

\* the alias of avg over the field `count` has been derived: avg_count
Wit_C10_DerivedAlias ==
    /\ Returned("get_alias")
    /\ ~inp.op.alias.some /\ inp.op.operation = N_avg /\ inp.op.field = N_count
    /\ out.r = <<"a","v","g","_","c","o","u","n","t">>

\* the operation names of the aggregation contract
ClaimedOperations ==
    {<<"s","u","m">>, <<"a","v","g">>, <<"c","o","u","n","t">>, <<"m","i","n">>,
     <<"m","a","x">>, <<"d","i","s","t","i","n","c","t","_","c","o","u","n","t">>}

\* the positions of the operations of a request outside the contract
Offending(request) ==
    {i \in DOMAIN request.operations :
        request.operations[i].operation \notin ClaimedOperations}

\* C11: run_aggregation on a request with an operation name outside
\* {sum, avg, count, min, max, distinct_count} returns the bad-request
\* (validation) error that names the first such operation, and prepares no
\* statement, whatever the rest of the request is
Thm_C11_UnsupportedOperationRejected ==
    (Returned("run_aggregation") /\ Offending(inp.request) # {})
        => LET i == CHOOSE i \in Offending(inp.request) :
                       \A k \in Offending(inp.request) : i <= k
           IN  /\ out.r.err.kind = "BadRequest"
               /\ out.r.err.msg = "Unsupported aggregation operation: "
               /\ out.r.err.arg = inp.request.operations[i].operation
               /\ out.r.prepared = 0
               /\ out.r.query = <<>>

\* a request with two offending operations after a supported one, with
\* group_by, filters and limit set, has been rejected naming `median`
Wit_C11_SecondOfThreeNamed ==
    /\ Returned("run_aggregation")
    /\ Cardinality(Offending(inp.request)) = 2 /\ 1 \notin Offending(inp.request)
    /\ inp.request.group_by.some /\ inp.request.filters.some /\ inp.request.limit.some
    /\ out.r.err.arg = <<"m","e","d","i","a","n">>
    /\ out.r.prepared = 0

\* p is a prefix of s
IsPrefix(p, s) == Len(p) <= Len(s) /\ SubSeq(s, 1, Len(p)) = p

\* C12 (as claimed): for a request with supported operations the select
\* list is the group_by fields in request order followed by one
\* "FN(field) AS alias" item per operation in request order, and the
\* GROUP BY clause lists the group_by fields in that same order
Claim_C12_GroupByFieldsInRequestOrder ==
    (Returned("run_aggregation") /\ Offending(inp.request) = {})
        => LET gb == IF inp.request.group_by.some THEN inp.request.group_by.v ELSE <<>>
               items == [i \in DOMAIN inp.request.operations |->
                           sql_op_of(inp.request.operations[i]) \o <<" ","A","S"," ">>
                               \o get_alias(inp.request.operations[i])]
               head == <<"S","E","L","E","C","T"," ">> \o Join(gb \o items, <<","," ">>)
                           \o <<" ","F","R","O","M"," ">>
           IN  /\ IsPrefix(head, out.r.query)
               /\ gb # <<>> =>
                     contains(out.r.query,
                              <<" ","G","R","O","U","P"," ","B","Y"," ">>
                                  \o Join(gb, <<","," ">>))

\* a filters value is malformed: not a JSON object, or an entry whose
\* value is neither text nor a number
Malformed(filters) ==
    filters.some /\
        (~filters.v.object \/
         \E i \in DOMAIN filters.v.entries :
             filters.v.entries[i].value.t \notin {"String", "Number"})

\* C13 (as claimed): run_aggregation given a malformed filter returns a
\* validation error and prepares no statement
Claim_C13_MalformedFilterRejected ==
    (Returned("run_aggregation") /\ Malformed(inp.request.filters))
        => (out.r.err.kind \in {"Validation", "BadRequest"} /\ out.r.prepared = 0)

\* C14: time_series_aggregation returns the bad-request (validation) error
\* and sends no statement when interval is outside {hour, day, week, month}
\* or aggregation is outside {sum, avg, count, min, max}; detect_outliers
\* does so when method is outside {iqr, zscore}; every supported
\* combination sends exactly one statement to execute_query_with_params
Thm_C14_ServiceNamesValidated ==
    /\ Returned("time_series_aggregation") =>
          IF /\ inp.interval \in {<<"h","o","u","r">>, <<"d","a","y">>, <<"w","e","e","k">>, <<"m","o","n","t","h">>}
             /\ inp.aggregation \in {<<"s","u","m">>, <<"a","v","g">>, <<"c","o","u","n","t">>, <<"m","i","n">>, <<"m","a","x">>}
          THEN Len(out.r.sent) = 1 /\ out.r.err.kind # "BadRequest"
          ELSE out.r.err.kind = "BadRequest" /\ out.r.sent = <<>> /\ out.r.prepared = 0
    /\ Returned("detect_outliers") =>
          IF inp.method \in {<<"i","q","r">>, <<"z","s","c","o","r","e">>}
          THEN Len(out.r.sent) = 1 /\ out.r.err.kind # "BadRequest"
          ELSE out.r.err.kind = "BadRequest" /\ out.r.sent = <<>> /\ out.r.prepared = 0

\* the interval `year` has been rejected by name with no statement sent
Wit_C14_UnknownIntervalRejected ==
    /\ Returned("time_series_aggregation")
    /\ inp.interval = <<"y","e","a","r">> /\ inp.aggregation = N_sum
    /\ out.r.err = BadRequestErr("Invalid interval: ", <<"y","e","a","r">>)
    /\ out.r.sent = <<>>

\* the reference mapping of the value mapper
ReferenceValue(c) ==
    CASE c.kind = "Null" -> [t |-> "Null", n |-> 0, s |-> ""]
      [] c.kind \in {"Int", "BigInt", "Integer"} -> [t |-> "Number", n |-> c.n, s |-> ""]
      [] c.kind \in {"Double", "Real"} ->
             [t |-> "Number", n |-> IF c.ok THEN c.n ELSE 0, s |-> ""]
      [] c.kind = "Text" -> [t |-> "String", n |-> 0, s |-> IF c.ok THEN c.s ELSE "U+FFFD"]
      [] c.kind = "Blob" -> [t |-> "String", n |-> 0, s |-> "BLOB"]
      [] OTHER -> [t |-> "String", n |-> 0, s |-> "UNKNOWN"]

\* C16 (as claimed): the value mapper of execute_custom_query equals the
\* reference mapping on every native cell: null, every integer kind and
\* every finite float to the number of the same value, a non-finite float
\* to 0, text to a string, binary to "BLOB", any other kind to "UNKNOWN"
Claim_C16_MapperEqualsReference ==
    Returned("map_value") => out.r.envelope = ReferenceValue(inp.cell)

\* C17 (as claimed): for every native cell the value of the envelope path
\* (execute_custom_query) is the value of the column-name-keyed object path
\* (execute_websocket_query), of execute_query_with_params and of
\* preview_data
Claim_C17_MappersAgree ==
    Returned("map_value") => out.r.envelope = out.r.object

(***************************************************************************)
(* Properties of the cache entries (SpecCache).                            *)
(***************************************************************************)
\* the ttl_seconds the entry was built with
TtlOf(e) == inp[e.id]

\* C18 (as claimed): is_expired() returns true exactly at the instants
\* with now >= expires_at, the instant now == expires_at included
Claim_C18_UsableIffBeforeExpiry ==
    out.fn = "is_expired" =>
        (out.expired <=> out.now >= out.entry.expires_at)

\* an entry built with a positive TTL expires at created_at + TTL; asked
\* at the instant of its creation it is not expired, asked at any instant
\* after created_at + TTL it is
ExpiryOfPositiveTtl ==
    /\ \A e \in cache :
          TtlOf(e) > 0 => e.expires_at = e.created_at + TtlOf(e)
    /\ (out.fn = "is_expired" /\ TtlOf(out.entry) > 0) =>
          /\ out.now = out.entry.created_at => ~out.expired
          /\ out.now > out.entry.created_at + TtlOf(out.entry) => out.expired

\* an entry that has answered expired answers expired when asked again
ExpiredStaysExpired ==
    (/\ out.fn = "is_expired" /\ out.expired
     /\ out'.fn = "is_expired" /\ out'.entry = out.entry) => out'.expired

\* C19: for every positive TTL t, QueryCache::new gives expires_at ==
\* created_at + t, the entry is not expired at its creation and is expired
\* at every instant after created_at + t, and while the clock does not go
\* back an entry once expired stays expired
Thm_C19_TtlExpiry == [](ExpiryOfPositiveTtl) /\ [][ExpiredStaysExpired]_vars

\* the entry of the test (TTL 300) is asked again at second 301 after its
\* creation and is expired
Wit_C19_ExpiredAfterTtl ==
    /\ out.fn = "is_expired" /\ TtlOf(out.entry) = CacheTtl
    /\ out.now = out.entry.created_at + CacheTtl + 1
    /\ out.expired

(***************************************************************************)
(* Properties of correlation_matrix (SpecMatrix).                          *)
(***************************************************************************)
\* C15 (as claimed): a successful correlation_matrix has run one query per
\* ordered pair of its N columns, its result has an entry for every ordered
\* pair, and result[a][b] = result[b][a], also when INSERTs of other
\* requests ran between its queries
Claim_C15_CompleteAndSymmetric ==
    (pc[Matrix] = "done" /\ ret[Matrix].err = NoErr) =>
        LET result == ret[Matrix].value
            columns == ret[Matrix].columns
        IN  /\ ret[Matrix].locks = Len(columns) * Len(columns)
            /\ \A a, b \in Range(columns) :
                  /\ a \in DOMAIN result
                  /\ b \in DOMAIN result[a]
                  /\ result[a][b] = result[b][a]

(***************************************************************************)
(* Properties of the table names, the engine errors and the migrations     *)
(* (SpecCalls).                                                            *)
(***************************************************************************)
\* C21: for every identifier, every call site (ingestion of the three
\* formats, freeform query, aggregation, metrics, deletion, preview)
\* derives the same table name: "data_source_" followed by the identifier
\* with each '-' replaced by '_'
Thm_C21_OneTableName ==
    out.fn = "table_name" =>
        \A site \in TableNameSites :
            LET name == out.r[site] IN
            /\ Len(name) = Len(S_data_source_) + Len(inp.id)
            /\ SubSeq(name, 1, Len(S_data_source_)) = S_data_source_
            /\ \A i \in 1..Len(inp.id) :
                  name[Len(S_data_source_) + i] =
                      IF inp.id[i] = "-" THEN "_" ELSE inp.id[i]

\* the names derived for an identifier in the shape of a uuid
Wit_C21_UuidNamed ==
    /\ out.fn = "table_name" /\ Len(inp.id) = 9
    /\ \A site \in TableNameSites :
          out.r[site] = S_data_source_ \o <<"1","_","2","_","3","_","4","_","5">>

\* the engine fails a call of the given statement before the row loop can
\* end: at prepare, at query, or at a fetch the loop reaches (reach: the
\* last fetch the loop makes)
EngineFails(eng, reach) ==
    \/ eng.fail \in {"prepare", "query"}
    \/ eng.fail = "row" /\ eng.failAt <= reach

\* C23: when prepare, query or a row fetch fails, the call returns the
\* engine's error as it is, with no rows, after a single prepare; on the
\* WebSocket path the one query:result message carries the error text and
\* empty data
Thm_C23_FailedAttemptIsTerminal ==
    /\ (/\ out.fn \in {"execute_custom_query", "execute_query_with_params"}
        /\ ~(out.fn = "execute_custom_query" /\ general_denylist(inp.sql))
        /\ EngineFails(inp.eng, inp.eng.nrows + 1))
          => /\ out.r.err = EngineErr(inp.eng.fail)
             /\ out.r.value = NoResult
             /\ out.r.prepared = 1
    /\ (/\ out.fn = "recv_text_message"
        /\ ~read_only_denylist(inp.sql)
        /\ EngineFails(inp.eng, WsRowCap))
          => /\ out.r.query.err = EngineErr(inp.eng.fail)
             /\ out.r.query.value = <<>>
             /\ out.r.query.prepared = 1
             /\ inp.rx_alive =>
                   out.r.sent = <<[type |-> "query:result", data |-> <<>>,
                                   error |-> SomeText(to_string(EngineErr(inp.eng.fail)))]>>

\* a fetch fails after rows have been fetched: the call returns the error
\* and none of the rows
Wit_C23_FetchFailsAfterRows ==
    /\ out.fn = "execute_custom_query" /\ ~general_denylist(inp.sql)
    /\ inp.eng.fail = "row" /\ inp.eng.failAt > 1
    /\ out.r.err = EngineErr("row") /\ out.r.value.data = <<>>

(***************************************************************************)
(* The migrations (database/migrations.rs), specification SpecMigrations.  *)
(* run_migrations runs before the server accepts requests, on a connection *)
(* of its own, so one run is one step.  A plan says which statement of the *)
(* run the engine fails for a reason that does not come from the schema    *)
(* (an I/O error, a full disk):                                            *)
(*   create : CREATE TABLE IF NOT EXISTS __migrations fails                *)
(*   query  : SELECT MAX(version) fails                                    *)
(*   at     : the version whose step fails, 0 for none                     *)
(*   stmt   : the statement of that step that fails; one more than the     *)
(*            number of statements of the batch is the INSERT into         *)
(*            __migrations                                                 *)
(* Failures that come from the schema (the table exists already, the       *)
(* version is recorded already) are computed from store.                   *)
(* out is the sequence of the runs so far.                                 *)
(***************************************************************************)
MaxRuns == 3

NumMigrations == Len(MigrationVersions)

NoFault == [create |-> FALSE, query |-> FALSE, at |-> 0, stmt |-> 0]

Plans ==
    {NoFault} \cup
    UNION {{[create |-> FALSE, query |-> q, at |-> MigrationVersions[i], stmt |-> k] :
               q \in BOOLEAN, k \in 1..(MigrationStatements[i] + 1)} :
           i \in 1..NumMigrations} \cup
    {[create |-> c, query |-> q, at |-> 0, stmt |-> 0] :
        c \in BOOLEAN, q \in BOOLEAN}

MaxOf(S) == IF S = {} THEN 0 ELSE CHOOSE x \in S : \A y \in S : y <= x

\* migrations.rs:51-61  Ok(Some(version)) => version, Ok(None) => 0,
\* Err(_) => 0
get_current_migration_version_from_zero(st, plan) == 0
get_current_migration_version(st, plan) ==
    IF plan.query THEN 0 ELSE MaxOf(st.migrations)

\* migrations.rs:160-162  execute_batch runs the statements of the batch one
\* after the other; each statement that succeeded stays in the database.
\* The first statement of every batch is a CREATE TABLE without IF NOT
\* EXISTS (migrations.rs:81, 97, 113, 130, 146).
run_migration(st, i, plan) ==
    LET v == MigrationVersions[i]
        exists == v \in Range(st.applied) \cup st.partial
        failAt == IF exists THEN 1
                  ELSE IF plan.at = v /\ plan.stmt <= MigrationStatements[i]
                       THEN plan.stmt ELSE 0
    IN  IF failAt = 0
        THEN [ok |-> TRUE, store |-> [st EXCEPT !.applied = Append(@, v)]]
        ELSE [ok |-> FALSE,
              store |-> IF failAt > 1
                        THEN [st EXCEPT !.partial = @ \cup {v}] ELSE st]

\* migrations.rs:63-69  INSERT INTO __migrations (version) VALUES (?);
\* version is the PRIMARY KEY (migrations.rs:43)
update_migration_version(st, i, plan) ==
    LET v == MigrationVersions[i]
    IN  IF v \in st.migrations
           \/ (plan.at = v /\ plan.stmt = MigrationStatements[i] + 1)
        THEN [ok |-> FALSE, store |-> st]
        ELSE [ok |-> TRUE, store |-> [st EXCEPT !.migrations = @ \cup {v}]]

\* migrations.rs:19-35  the loop over the migrations from index i on.
\* The result names the store after the loop, the versions whose SQL ran to
\* its end in this run, and the version the run stopped at (0: none).
RECURSIVE pending_migrations(_, _, _, _)
pending_migrations(st, current_version, i, plan) ==
    IF i > NumMigrations
    THEN [store |-> st, ran |-> <<>>, failed |-> 0]
    ELSE IF ~(MigrationVersions[i] > current_version)
    THEN pending_migrations(st, current_version, i + 1, plan)
    ELSE LET m == run_migration(st, i, plan)
         IN  IF ~m.ok
             THEN [store |-> m.store, ran |-> <<>>,
                   failed |-> MigrationVersions[i]]
             ELSE LET u == update_migration_version(m.store, i, plan)
                  IN  IF ~u.ok
                      THEN [store |-> u.store, ran |-> <<MigrationVersions[i]>>,
                            failed |-> MigrationVersions[i]]
                      ELSE LET rest == pending_migrations(u.store, current_version,
                                                          i + 1, plan)
                           IN  [rest EXCEPT
                                  !.ran = <<MigrationVersions[i]>> \o @]

\* migrations.rs:5-38
run_migrations_result(st, plan) ==
    IF plan.create
    THEN [result |-> "Err", store |-> st, ran |-> <<>>, failed |-> 0]
    ELSE LET l == pending_migrations(st, get_current_migration_version(st, plan),
                                     1, plan)
         IN  [result |-> IF l.failed = 0 THEN "Ok" ELSE "Err",
              store |-> l.store, ran |-> l.ran, failed |-> l.failed]

InitMigrations ==
    /\ lock = {} /\ pc = "start" /\ call = NoInp /\ stmts = <<>>
    /\ ret = NoOut /\ inp = NoInp /\ out = <<>>
    /\ tableVersion = 0 /\ clock = 0 /\ cache = {}
    /\ store = EmptyStore

run_migrations ==
    /\ Len(out) < MaxRuns
    /\ \E plan \in Plans :
          LET r == run_migrations_result(store, plan)
          IN  /\ store' = r.store
              /\ out' = Append(out, [result |-> r.result, ran |-> r.ran,
                                     failed |-> r.failed, plan |-> plan,
                                     before |-> store, after |-> r.store])
    /\ UNCHANGED <<lock, pc, call, stmts, ret, inp, tableVersion, clock, cache>>

NextMigrations == run_migrations

SpecMigrations == InitMigrations /\ [][NextMigrations]_vars

\* C24: the first run on an empty database, when the engine fails no
\* statement, applies the migrations 1..5 in ascending order, each once, and
\* records each version; a later run on that database that the engine fails
\* no statement of applies no migration, succeeds and leaves the maximum
\* recorded version at 5
Thm_C24_MigrationsIdempotent ==
    \A k \in 1..Len(out) :
        /\ (k = 1 /\ out[k].plan = NoFault)
              => /\ out[k].result = "Ok"
                 /\ out[k].ran = MigrationVersions
                 /\ out[k].after.applied = MigrationVersions
                 /\ out[k].after.migrations = Range(MigrationVersions)
        /\ (k = 1 /\ out[k].result = "Ok")
              => /\ out[k].ran = MigrationVersions
                 /\ out[k].after.migrations = Range(MigrationVersions)
        /\ (k > 1 /\ out[1].result = "Ok" /\ out[k].plan = NoFault)
              => /\ out[k].result = "Ok"
                 /\ out[k].ran = <<>>
                 /\ out[k].after = out[k].before
                 /\ MaxOf(out[k].after.migrations) = 5

\* two runs without a failure: the second applied nothing and succeeded
Wit_C24_SecondRunAppliesNothing ==
    /\ Len(out) >= 2
    /\ out[1].plan = NoFault /\ out[1].ran = MigrationVersions
    /\ out[2].plan = NoFault /\ out[2].ran = <<>> /\ out[2].result = "Ok"
    /\ MaxOf(store.migrations) = 5

\* C30: the maximum recorded version is the number of the last migration
\* whose SQL completed
Claim_C30_MaxRecordedIsLastCompleted ==
    MaxOf(store.migrations) =
        (IF store.applied = <<>> THEN 0 ELSE store.applied[Len(store.applied)])

(***************************************************************************)
(* The data sources (handlers/data.rs, services/file_processor.rs,         *)
(* DataSourceQueries), specification SpecSources.  Clients upload files    *)
(* and delete data sources next to each other.  A data source is named by  *)
(* the number of its upload, which stands for the fresh UUID that          *)
(* process_*_file draws.  The engine's answer to the statements of one     *)
(* lock hold is an input: "ok", "first" (the first statement that changes  *)
(* the database fails) or "later" (a later step fails).                    *)
(* pc[r] is "idle", "lock_wait" or "locked"; call[r].phase names the hold  *)
(* the request waits for or is in.                                         *)
(***************************************************************************)
MaxUploads == 2

SourceNumbers == 1..MaxUploads

\* the uploads: no file part, an empty file, and files by extension and
\* content
Files ==
    {[ext |-> "none", shape |-> "no_file"], [ext |-> "csv", shape |-> "empty"],
     [ext |-> "csv", shape |-> "rows"], [ext |-> "csv", shape |-> "bad_header"],
     [ext |-> "json", shape |-> "objects"], [ext |-> "json", shape |-> "empty_array"],
     [ext |-> "json", shape |-> "first_not_object"],
     [ext |-> "json", shape |-> "not_array"], [ext |-> "json", shape |-> "invalid"],
     [ext |-> "parquet", shape |-> "rows"], [ext |-> "txt", shape |-> "rows"]}

HoldResponses == {"ok", "first", "later"}

\* data.rs:47-52 and file_processor.rs:28-43, 59, 149-153: what upload_data
\* answers before any lock is requested; "none" when the file goes on
upload_rejection(file) ==
    IF file.shape \in {"no_file", "empty"} THEN "BadRequest"
    ELSE IF file.ext \notin {"csv", "json", "parquet"} THEN "FileUpload"
    ELSE IF file.ext = "csv" /\ file.shape = "bad_header" THEN "FileUpload"
    ELSE IF file.ext = "json" /\ file.shape = "invalid" THEN "FileUpload"
    ELSE "none"

\* file_processor.rs:90-126  CREATE TABLE, fs::write, COPY
process_csv_file(st, file, id, eng) ==
    IF eng = "first" THEN [status |-> "Database", store |-> st]
    ELSE IF eng = "later"
    THEN [status |-> "Database", store |-> [st EXCEPT !.tables = @ \cup {id}]]
    ELSE [status |-> "Ok", store |-> [st EXCEPT !.tables = @ \cup {id}]]

\* file_processor.rs:158-220  the table is created inside
\* `if let Some(first_obj) = array.first()` and
\* `if let Value::Object(obj) = first_obj`; every array reaches
\* drop(conn_guard) and the Ok(data_source) after it
process_json_file(st, file, id, eng) ==
    IF file.shape = "not_array" THEN [status |-> "FileUpload", store |-> st]
    ELSE IF file.shape = "objects" THEN process_csv_file(st, file, id, eng)
    ELSE [status |-> "Ok", store |-> st]

\* file_processor.rs:246-283  fs::write, CREATE TABLE AS SELECT, DESCRIBE,
\* COUNT
process_parquet_file(st, file, id, eng) == process_csv_file(st, file, id, eng)

\* file_processor.rs:34-43
process_file_result(st, file, id, eng) ==
    CASE file.ext = "csv" -> process_csv_file(st, file, id, eng)
      [] file.ext = "json" -> process_json_file(st, file, id, eng)
      [] file.ext = "parquet" -> process_parquet_file(st, file, id, eng)

\* queries.rs:10-28  INSERT INTO data_sources; id is the PRIMARY KEY
DataSourceQueries_create(st, id, eng) ==
    IF eng # "ok" \/ id \in st.data_sources
    THEN [ok |-> FALSE, store |-> st]
    ELSE [ok |-> TRUE, store |-> [st EXCEPT !.data_sources = @ \cup {id}]]

\* queries.rs:30-57  Some(id) when a row has the id, None (0) otherwise
get_by_id(st, id) == IF id \in st.data_sources THEN id ELSE 0

\* queries.rs:59-91  the ids of the rows returned
list_all(st) == st.data_sources

\* mutant: the row stays
DataSourceQueries_delete_keeps_row(st, id, eng) ==
    IF eng = "first" THEN [ok |-> FALSE, deleted |-> FALSE, store |-> st]
    ELSE [ok |-> TRUE, deleted |-> id \in st.data_sources, store |-> st]

\* queries.rs:93-98  DELETE FROM data_sources WHERE id = ?; true when a row
\* was affected
DataSourceQueries_delete(st, id, eng) ==
    IF eng = "first" THEN [ok |-> FALSE, deleted |-> FALSE, store |-> st]
    ELSE [ok |-> TRUE, deleted |-> id \in st.data_sources,
          store |-> [st EXCEPT !.data_sources = @ \ {id}]]

\* data.rs:96-111  what delete_source does under its lock hold: the answer,
\* the statements it ran and the store it leaves
delete_source_result(st, id, eng) ==
    LET d == DataSourceQueries_delete(st, id, eng)
    IN  IF ~d.ok
        THEN [status |-> "Database", deleted |-> FALSE, ran |-> <<"DELETE">>,
              store |-> d.store]
        ELSE IF d.deleted
        THEN [status |-> "NoContent", deleted |-> TRUE,
              ran |-> <<"DELETE", "DROP TABLE">>,
              store |-> IF eng = "later" THEN d.store
                        ELSE [d.store EXCEPT !.tables = @ \ {id}]]
        ELSE [status |-> "NotFound", deleted |-> FALSE, ran |-> <<"DELETE">>,
              store |-> d.store]

Response(fn, status, id, deleted, ran) ==
    [fn |-> fn, status |-> status, id |-> id, deleted |-> deleted, ran |-> ran]

InitSources ==
    /\ lock = {} /\ pc = [r \in Requests |-> "idle"]
    /\ call = [r \in Requests |-> NoInp] /\ stmts = <<>>
    /\ ret = [r \in Requests |-> NoOut] /\ inp = NoInp /\ out = NoOut
    /\ tableVersion = 0 /\ clock = 0 /\ cache = {}
    /\ store = MigratedStore

\* data.rs:23-64 and file_processor.rs:21-89, 142-156, 236-244: the request
\* up to the first lock().await
upload_data(r) ==
    /\ pc[r] = "idle" /\ clock < MaxUploads
    /\ \E file \in Files :
          IF upload_rejection(file) # "none"
          THEN /\ ret' = [ret EXCEPT ![r] =
                            Response("upload_data", upload_rejection(file), 0,
                                     FALSE, <<>>)]
               /\ UNCHANGED <<pc, call, clock>>
          ELSE /\ call' = [call EXCEPT ![r] =
                             [fn |-> "upload_data", phase |-> "process_file",
                              file |-> file, id |-> clock + 1, locks |-> 0]]
               /\ clock' = clock + 1
               /\ pc' = [pc EXCEPT ![r] = "lock_wait"]
               /\ ret' = [ret EXCEPT ![r] = NoOut]
    /\ UNCHANGED <<lock, stmts, inp, out, tableVersion, store, cache>>

\* file_processor.rs:91-126, 158-220, 246-283: the lock hold of
\* process_*_file; the guard is dropped by drop(conn_guard) or by the return
process_file(r) ==
    /\ pc[r] = "locked" /\ call[r].fn = "upload_data"
    /\ call[r].phase = "process_file"
    /\ \E eng \in HoldResponses :
          LET p == process_file_result(store, call[r].file, call[r].id, eng)
          IN  /\ store' = p.store
              /\ IF p.status = "Ok"
                 THEN /\ call' = [call EXCEPT ![r].phase = "create"]
                      /\ pc' = [pc EXCEPT ![r] = "lock_wait"]
                      /\ UNCHANGED ret
                 ELSE /\ ret' = [ret EXCEPT ![r] =
                                   Response("upload_data", p.status, call[r].id,
                                            FALSE, <<>>)]
                      /\ call' = [call EXCEPT ![r] = NoInp]
                      /\ pc' = [pc EXCEPT ![r] = "idle"]
    /\ lock' = lock \ {r}
    /\ UNCHANGED <<stmts, inp, out, tableVersion, clock, cache>>

\* data.rs:66-72  the second lock hold of upload_data
upload_data_create(r) ==
    /\ pc[r] = "locked" /\ call[r].fn = "upload_data"
    /\ call[r].phase = "create"
    /\ \E eng \in {"ok", "first"} :
          LET c == DataSourceQueries_create(store, call[r].id, eng)
          IN  /\ store' = c.store
              /\ ret' = [ret EXCEPT ![r] =
                           Response("upload_data",
                                    IF c.ok THEN "Ok" ELSE "Database",
                                    call[r].id, FALSE, <<>>)]
    /\ call' = [call EXCEPT ![r] = NoInp]
    /\ pc' = [pc EXCEPT ![r] = "idle"]
    /\ lock' = lock \ {r}
    /\ UNCHANGED <<stmts, inp, out, tableVersion, clock, cache>>

\* data.rs:88-95  the request up to lock().await
delete_source(r) ==
    /\ pc[r] = "idle"
    /\ \E id \in SourceNumbers :
          call' = [call EXCEPT ![r] =
                     [fn |-> "delete_source", phase |-> "delete", id |-> id,
                      locks |-> 0]]
    /\ pc' = [pc EXCEPT ![r] = "lock_wait"]
    /\ ret' = [ret EXCEPT ![r] = NoOut]
    /\ UNCHANGED <<lock, stmts, inp, out, tableVersion, store, clock, cache>>

\* data.rs:96-111  the lock hold of delete_source
delete_source_locked(r) ==
    /\ pc[r] = "locked" /\ call[r].fn = "delete_source"
    /\ \E eng \in HoldResponses :
          LET d == delete_source_result(store, call[r].id, eng)
          IN  /\ store' = d.store
              /\ ret' = [ret EXCEPT ![r] =
                           Response("delete_source", d.status, call[r].id,
                                    d.deleted, d.ran)]
    /\ call' = [call EXCEPT ![r] = NoInp]
    /\ pc' = [pc EXCEPT ![r] = "idle"]
    /\ lock' = lock \ {r}
    /\ UNCHANGED <<stmts, inp, out, tableVersion, clock, cache>>

NextSources ==
    \E r \in Requests :
        \/ upload_data(r)
        \/ Acquire(r)
        \/ process_file(r)
        \/ upload_data_create(r)
        \/ delete_source(r)
        \/ delete_source_locked(r)

SpecSources == InitSources /\ [][NextSources]_vars

\* the step in which delete_source, holding the lock, answers
DeleteAnswered(r) ==
    /\ pc[r] = "locked" /\ call[r].fn = "delete_source" /\ pc'[r] = "idle"

\* after a delete that returned true the record cannot be read, by id or in
\* the list
DeletedIsGone ==
    \A r \in Requests :
        (DeleteAnswered(r) /\ ret'[r].deleted)
            => /\ get_by_id(store', call[r].id) = 0
               /\ call[r].id \notin list_all(store')
               /\ call[r].id \in list_all(store)

\* a record appears only by the create of an upload with that id
AbsentUntilCreated ==
    \A id \in SourceNumbers :
        (id \notin list_all(store) /\ id \in list_all(store'))
            => \E r \in Requests :
                  /\ pc[r] = "locked" /\ call[r].fn = "upload_data"
                  /\ call[r].phase = "create" /\ call[r].id = id
                  /\ ret'[r].status = "Ok"

\* a delete that found no record answers NotFound and ran no DROP TABLE
AbsentIsNotFound ==
    \A r \in Requests :
        (ret[r].fn = "delete_source" /\ ~ret[r].deleted)
            => /\ ret[r].status \in {"NotFound", "Database"}
               /\ ret[r].ran = <<"DELETE">>

\* C25: after DataSourceQueries::delete(id) returned true, get_by_id(id) is
\* None and list_all does not contain id until id is created again; a
\* delete of an id without a record returns false, and delete_source then
\* answers NotFound and runs no DROP TABLE
Thm_C25_DeleteRemovesRecord ==
    /\ [](AbsentIsNotFound)
    /\ [][DeletedIsGone /\ AbsentUntilCreated]_vars
    /\ [][\A r \in Requests :
             (DeleteAnswered(r) /\ call[r].id \notin list_all(store))
                => /\ ret'[r].status \in {"NotFound", "Database"}
                   /\ store' = store]_vars

\* a registered data source has been deleted, and a delete of an id without
\* a record has been answered NotFound
Wit_C25_DeletedAndNotFound ==
    \E r, q \in Requests :
        /\ ret[r].fn = "delete_source" /\ ret[r].deleted
        /\ ret[r].status = "NoContent" /\ ret[r].id \notin store.data_sources
        /\ ret[q].fn = "delete_source" /\ ret[q].status = "NotFound"

\* C27: every record in data_sources has its backing table
Claim_C27_RecordHasTable ==
    \A id \in store.data_sources : id \in store.tables

(***************************************************************************)
(* The dashboard configurations (handlers/dashboard.rs, DashboardQueries), *)
(* specification SpecDashboard.  Clients save configurations and update    *)
(* them next to each other.  clock counts the requests started and is the  *)
(* CURRENT_TIMESTAMP of the statements that run.  out is the sequence      *)
(* of the updates that were written, each with the flag overlapped: another*)
(* update of the same configuration was waiting for the lock at the time.  *)
(***************************************************************************)
MaxConfigs == 1
MaxEdits == 3

NoField == [some |-> FALSE, v |-> ""]

Fields == {"name", "layout", "filters", "data_source_id", "refresh_interval"}

\* models/dashboard.rs:160-166  UpdateDashboardRequest: every field is an
\* Option; here the empty request, each field alone, and all
NoUpdate ==
    [name |-> NoField, layout |-> NoSeq, filters |-> NoField,
     data_source_id |-> NoField, refresh_interval |-> NoOpt]

AllUpdate ==
    [name |-> Opt("n2"), layout |-> Opt(<<"w2">>), filters |-> Opt("f2"),
     data_source_id |-> Opt("s2"), refresh_interval |-> Opt(60)]

UpdateRequests ==
    {[f \in Fields |-> IF f \in F THEN AllUpdate[f] ELSE NoUpdate[f]] :
        F \in {{}, Fields} \cup {{f} : f \in Fields}}

\* serde_json::to_string and serde_json::from_str of the layout column
\* (queries.rs:124, 141-152): a text that does not parse as Vec<WidgetLayout>
\* reads as the empty layout (unwrap_or_default)
layout_to_string(layout) == [json |-> layout]
layout_from_str(text) ==
    IF text.json \in {<<>>, <<"w1">>, <<"w2">>} THEN text.json ELSE <<>>

\* the filters column (queries.rs:125, 142, 153): NULL reads as None, a text
\* that does not parse reads as None (.ok())
filters_to_string(filters) ==
    IF filters.some THEN Opt([json |-> filters.v]) ELSE NoField
filters_from_str(column) ==
    IF column.some /\ column.v.json \in {"f1", "f2"}
    THEN Opt(column.v.json) ELSE NoField

\* handlers/dashboard.rs:31-36 and queries.rs:116-133  the row save_config
\* inserts; created_at and updated_at default to CURRENT_TIMESTAMP
saved_row(data_source_id, now) ==
    [name |-> "n1", layout |-> layout_to_string(<<"w1">>),
     filters |-> filters_to_string(NoField),
     data_source_id |-> Opt(IF data_source_id.some THEN data_source_id.v ELSE ""),
     refresh_interval |-> Opt(30), created_at |-> now, updated_at |-> now]

\* queries.rs:135-163  DashboardQueries::get_by_id
DashboardQueries_get_by_id(st, id) ==
    IF id \in 1..Len(st.configs)
    THEN LET row == st.configs[id]
         IN  Opt([id |-> id, name |-> row.name,
                  layout |-> layout_from_str(row.layout),
                  filters |-> filters_from_str(row.filters),
                  data_source_id |-> row.data_source_id,
                  refresh_interval |-> row.refresh_interval])
    ELSE [some |-> FALSE, v |-> NoUpdate]

\* queries.rs:196-214  DashboardQueries::update: UPDATE ... SET the five
\* columns and updated_at = CURRENT_TIMESTAMP WHERE id = ?
DashboardQueries_update(st, config, now) ==
    IF config.id \in 1..Len(st.configs)
    THEN [st EXCEPT !.configs[config.id] =
            [@ EXCEPT !.name = config.name,
                      !.layout = layout_to_string(config.layout),
                      !.filters = filters_to_string(config.filters),
                      !.data_source_id = config.data_source_id,
                      !.refresh_interval = config.refresh_interval,
                      !.updated_at = now]]
    ELSE st

\* mutant: the request replaces the configuration, absent fields are reset
merge_request_replaces(config, request) ==
    [config EXCEPT !.name = request.name.v,
                   !.layout = request.layout.v,
                   !.filters = request.filters,
                   !.data_source_id = request.data_source_id,
                   !.refresh_interval = request.refresh_interval]

\* handlers/dashboard.rs:62-77  `if let Some(x) = request.x { config.x = .. }`
merge_request(config, request) ==
    [config EXCEPT
       !.name = IF request.name.some THEN request.name.v ELSE @,
       !.layout = IF request.layout.some THEN request.layout.v ELSE @,
       !.filters = IF request.filters.some THEN request.filters ELSE @,
       !.data_source_id =
           IF request.data_source_id.some THEN request.data_source_id ELSE @,
       !.refresh_interval =
           IF request.refresh_interval.some THEN request.refresh_interval ELSE @]

\* handlers/dashboard.rs:55-85  what update_config does under its lock
\* hold; eng names the statement the engine fails ("first": the SELECT,
\* "later": the UPDATE)
update_config_result(st, id, request, now, eng) ==
    LET found == DashboardQueries_get_by_id(st, id)
    IN  IF eng = "first" THEN [status |-> "Database", store |-> st]
        ELSE IF ~found.some THEN [status |-> "NotFound", store |-> st]
        ELSE IF eng = "later" THEN [status |-> "Database", store |-> st]
        ELSE [status |-> "Ok",
              store |-> DashboardQueries_update(st, merge_request(found.v, request),
                                                now)]

InitDashboard ==
    /\ lock = {} /\ pc = [r \in Requests |-> "idle"]
    /\ call = [r \in Requests |-> NoInp] /\ stmts = <<>>
    /\ ret = [r \in Requests |-> NoOut] /\ inp = NoInp /\ out = <<>>
    /\ tableVersion = 0 /\ clock = 0 /\ cache = {}
    /\ store = MigratedStore

\* handlers/dashboard.rs:24-39  save_config up to lock().await
save_config(r) ==
    /\ pc[r] = "idle" /\ clock < MaxEdits
    /\ \E ds \in {NoField, Opt("s1")} :
          call' = [call EXCEPT ![r] =
                     [fn |-> "save_config", data_source_id |-> ds, locks |-> 0]]
    /\ clock' = clock + 1
    /\ pc' = [pc EXCEPT ![r] = "lock_wait"]
    /\ ret' = [ret EXCEPT ![r] = NoOut]
    /\ UNCHANGED <<lock, stmts, inp, out, tableVersion, store, cache>>

\* handlers/dashboard.rs:40-44  the lock hold of save_config
save_config_locked(r) ==
    /\ pc[r] = "locked" /\ call[r].fn = "save_config"
    /\ \E eng \in {"ok", "first"} :
          IF eng = "ok" /\ Len(store.configs) < MaxConfigs
          THEN /\ store' = [store EXCEPT !.configs =
                              Append(@, saved_row(call[r].data_source_id, clock))]
               /\ ret' = [ret EXCEPT ![r] = [fn |-> "save_config", status |-> "Ok"]]
          ELSE /\ ret' = [ret EXCEPT ![r] =
                            [fn |-> "save_config", status |-> "Database"]]
               /\ UNCHANGED store
    /\ call' = [call EXCEPT ![r] = NoInp]
    /\ pc' = [pc EXCEPT ![r] = "idle"]
    /\ lock' = lock \ {r}
    /\ UNCHANGED <<stmts, inp, out, tableVersion, clock, cache>>

\* handlers/dashboard.rs:47-56  update_config up to lock().await
update_config(r) ==
    /\ pc[r] = "idle" /\ clock < MaxEdits
    /\ \E id \in 1..(MaxConfigs + 1), request \in UpdateRequests :
          call' = [call EXCEPT ![r] =
                     [fn |-> "update_config", id |-> id, request |-> request,
                      locks |-> 0]]
    /\ clock' = clock + 1
    /\ pc' = [pc EXCEPT ![r] = "lock_wait"]
    /\ ret' = [ret EXCEPT ![r] = NoOut]
    /\ UNCHANGED <<lock, stmts, inp, out, tableVersion, store, cache>>

\* handlers/dashboard.rs:56-85  the lock hold of update_config: the read,
\* the merge and the write
update_config_locked(r) ==
    /\ pc[r] = "locked" /\ call[r].fn = "update_config"
    /\ \E eng \in HoldResponses :
          LET u == update_config_result(store, call[r].id, call[r].request,
                                        clock, eng)
          IN  /\ store' = u.store
              /\ ret' = [ret EXCEPT ![r] =
                           [fn |-> "update_config", status |-> u.status]]
              /\ out' = IF u.status = "Ok"
                        THEN Append(out,
                               [id |-> call[r].id, request |-> call[r].request,
                                overlapped |->
                                   \E q \in Requests \ {r} :
                                      /\ pc[q] = "lock_wait"
                                      /\ call[q].fn = "update_config"
                                      /\ call[q].id = call[r].id])
                        ELSE out
    /\ call' = [call EXCEPT ![r] = NoInp]
    /\ pc' = [pc EXCEPT ![r] = "idle"]
    /\ lock' = lock \ {r}
    /\ UNCHANGED <<stmts, inp, tableVersion, clock, cache>>

NextDashboard ==
    \E r \in Requests :
        \/ save_config(r)
        \/ save_config_locked(r)
        \/ update_config(r)
        \/ update_config_locked(r)
        \/ Acquire(r)

SpecDashboard == InitDashboard /\ [][NextDashboard]_vars

\* a field of a configuration as an Option, to compare it with the request
FieldValue(config, f) ==
    IF f \in {"name", "layout"} THEN Opt(config[f]) ELSE config[f]

\* the step in which update_config, holding the lock, answers
UpdateAnswered(r) ==
    /\ pc[r] = "locked" /\ call[r].fn = "update_config" /\ pc'[r] = "idle"

\* an update that is written sets the fields of the request and
\* updated_at, and nothing else, in the row of its id, and no other row
UpdateSetsRequestedFields ==
    \A r \in Requests :
        (UpdateAnswered(r) /\ ret'[r].status = "Ok")
            => LET id == call[r].id
                   old == DashboardQueries_get_by_id(store, id).v
                   new == DashboardQueries_get_by_id(store', id).v
               IN  /\ id \in 1..Len(store.configs)
                   /\ \A f \in Fields :
                         FieldValue(new, f) =
                            IF call[r].request[f].some THEN call[r].request[f]
                            ELSE FieldValue(old, f)
                   /\ store'.configs[id].created_at = store.configs[id].created_at
                   /\ store'.configs[id].updated_at = clock
                   /\ Len(store'.configs) = Len(store.configs)
                   /\ \A j \in 1..Len(store.configs) :
                         j # id => store'.configs[j] = store.configs[j]

\* an update of an id without a row answers NotFound; an update that is not
\* written leaves the database as it is
UpdateOfAbsentWritesNothing ==
    \A r \in Requests :
        UpdateAnswered(r)
            => /\ (call[r].id \notin 1..Len(store.configs))
                     => ret'[r].status \in {"NotFound", "Database"}
               /\ ret'[r].status # "Ok" => store' = store /\ out' = out

\* every field of a stored configuration has the value of the last written
\* update that named it
LastUpdateOfFieldStored ==
    \A id \in 1..Len(store.configs), f \in Fields :
        LET S == {k \in 1..Len(out) : out[k].id = id /\ out[k].request[f].some}
        IN  S # {} =>
               FieldValue(DashboardQueries_get_by_id(store, id).v, f) =
                   out[MaxOf(S)].request[f]

\* C29: update_config changes the fields present in the request and
\* updated_at and no other field; read and write are one lock hold, so the
\* fields set by two concurrent updates are all stored; for an id without
\* a record it answers NotFound and writes nothing
Thm_C29_UpdateMergesFields ==
    /\ [](LastUpdateOfFieldStored)
    /\ [][UpdateSetsRequestedFields /\ UpdateOfAbsentWritesNothing]_vars

\* two updates of one configuration that waited for the lock together and
\* set different fields: both are stored
Wit_C29_ConcurrentUpdatesKept ==
    /\ Len(out) >= 2
    /\ out[1].id = 1 /\ out[2].id = 1 /\ out[1].overlapped
    /\ out[1].request = [NoUpdate EXCEPT !.name = Opt("n2")]
    /\ out[2].request = [NoUpdate EXCEPT !.refresh_interval = Opt(60)]
    /\ store.configs[1].name = "n2"
    /\ store.configs[1].refresh_interval = Opt(60)
    /\ store.configs[1].layout = layout_to_string(<<"w1">>)

(***************************************************************************)
(* The receive loop of a WebSocket connection (handlers/websocket.rs:      *)
(* 74-156), specification SpecSocket.  inp is the sequence of the frames   *)
(* the client sends, in arrival order; call[s].k is the number of frames   *)
(* the loop has taken; out is the content of the connection's channel,     *)
(* each message with the number of the frame that caused it; stmts is the  *)
(* log of the query:execute frames handled; ret[s].rx_alive says whether   *)
(* the send task, which owns the channel's receiver, still runs.           *)
(***************************************************************************)
MaxFrames == 2

Sockets == {1}

SmallResponses ==
    {[fail |-> "none", failAt |-> 0, names |-> <<"a", "b">>, nrows |-> 1],
     [fail |-> "none", failAt |-> 0, names |-> <<"a", "b">>, nrows |-> 0],
     [fail |-> "prepare", failAt |-> 0, names |-> <<>>, nrows |-> 0],
     [fail |-> "row", failAt |-> 1, names |-> <<"a", "b">>, nrows |-> 1]}

\* a frame: a query:execute message, a text that is no ClientMessage, a
\* Ping, a Close, or an error of the socket
Frames ==
    {[kind |-> "query:execute", sql |-> sql, eng |-> eng] :
        sql \in {T_select1, T_INSERT}, eng \in SmallResponses}
    \cup {[kind |-> k, sql |-> <<>>, eng |-> CHOOSE e \in SmallResponses : e.nrows = 0] :
             k \in {"invalid", "ping", "close", "error"}}

FrameSeqs == UNION {[1..n -> Frames] : n \in 0..MaxFrames}

InvalidFormatErr == [kind |-> "BadRequest", msg |-> "Invalid message format", arg |-> <<>>]

\* the messages of frame k that reach the channel
Tagged(k, sent) == [i \in 1..Len(sent) |-> [for |-> k, msg |-> sent[i]]]

InitSocket ==
    /\ lock = {} /\ pc = [s \in Sockets |-> "recv"]
    /\ call = [s \in Sockets |-> [fn |-> "handle_websocket", k |-> 0, locks |-> 0]]
    /\ stmts = <<>> /\ out = <<>>
    /\ ret = [s \in Sockets |-> [fn |-> "send_task", rx_alive |-> TRUE]]
    /\ tableVersion = 0 /\ clock = 0 /\ cache = {}
    /\ store = MigratedStore
    /\ inp \in FrameSeqs

\* websocket.rs:93-122  `while let Some(msg) = receiver.next().await` and
\* the match on the frame, up to the lock().await of a query
receive(s) ==
    /\ pc[s] = "recv" /\ call[s].k < Len(inp)
    /\ LET k == call[s].k + 1
           frame == inp[k]
       IN  /\ call' = [call EXCEPT ![s].k = k]
           /\ pc' = [pc EXCEPT ![s] =
                       CASE frame.kind = "query:execute" -> "lock_wait"
                         [] frame.kind \in {"close", "error"} -> "closed"
                         [] OTHER -> "recv"]
           /\ out' = IF frame.kind = "invalid" /\ ret[s].rx_alive
                     THEN out \o Tagged(k, <<[type |-> "error", data |-> <<>>,
                                             error |-> SomeText(to_string(InvalidFormatErr))]>>)
                     ELSE out
    /\ UNCHANGED <<lock, stmts, ret, inp, tableVersion, store, clock, cache>>

\* websocket.rs:96-110, 192-221, 228-280  the query under the lock, the
\* tx.send of its query:result, and the return to receiver.next()
handle_query(s) ==
    /\ pc[s] = "locked"
    /\ LET k == call[s].k
           h == recv_text_message(inp[k].sql, inp[k].eng, ret[s].rx_alive)
       IN  /\ out' = out \o Tagged(k, h.sent)
           /\ stmts' = Append(stmts, [k |-> k, rx_alive |-> ret[s].rx_alive,
                                      err |-> h.query.err, rows |-> h.query.value])
    /\ lock' = lock \ {s}
    /\ pc' = [pc EXCEPT ![s] = "recv"]
    /\ UNCHANGED <<call, ret, inp, tableVersion, store, clock, cache>>

\* websocket.rs:129-143  the send task ends when the socket refuses a
\* message or rx.recv() returns an error; the receiver is dropped with it
send_task_ends(s) ==
    /\ pc[s] # "closed" /\ ret[s].rx_alive
    /\ ret' = [ret EXCEPT ![s].rx_alive = FALSE]
    /\ UNCHANGED <<lock, pc, call, stmts, inp, out, tableVersion, store, clock, cache>>

\* websocket.rs:146-153  select!: recv_task.abort() after the send task
\* ended; the abort takes effect where the receive task awaits
recv_task_abort(s) ==
    /\ ~ret[s].rx_alive /\ pc[s] \in {"recv", "lock_wait"}
    /\ pc' = [pc EXCEPT ![s] = "closed"]
    /\ UNCHANGED <<lock, call, stmts, ret, inp, out, tableVersion, store, clock, cache>>

NextSocket ==
    \E s \in Sockets :
        \/ receive(s)
        \/ Acquire(s)
        \/ handle_query(s)
        \/ send_task_ends(s)
        \/ recv_task_abort(s)

SpecSocket == InitSocket /\ [][NextSocket]_vars

\* the channel messages caused by frame k
MessagesOf(k) ==
    LET OfK(m) == m.for = k IN SelectSeq(out, OfK)

\* each handled query:execute whose channel had its receiver put exactly
\* one message on the channel, a query:result: the rows with error None,
\* or no data with the text of the error; none put an `error` message
OneResultPerQuery ==
    \A i \in 1..Len(stmts) :
        LET h == stmts[i]
            ms == MessagesOf(h.k)
        IN  /\ \A j \in 1..Len(ms) : ms[j].msg.type = "query:result"
            /\ h.rx_alive =>
                 /\ Len(ms) = 1
                 /\ IF h.err = NoErr
                    THEN ms[1].msg.error = NoneText /\ ms[1].msg.data = h.rows
                    ELSE /\ ms[1].msg.data = <<>>
                         /\ ms[1].msg.error = SomeText(to_string(h.err))

\* the frames are handled one at a time in arrival order: the log and the
\* channel are ordered by frame, and while a query is in progress every
\* earlier query has been answered and no later frame has been taken
HandledInArrivalOrder ==
    /\ \A i, j \in 1..Len(stmts) : i < j => stmts[i].k < stmts[j].k
    /\ \A i, j \in 1..Len(out) : i < j => out[i].for <= out[j].for
    /\ \A s \in Sockets :
          /\ \A i \in 1..Len(stmts) : stmts[i].k <= call[s].k
          /\ \A k \in 1..call[s].k :
                (inp[k].kind = "query:execute"
                 /\ ~(k = call[s].k /\ pc[s] \in {"lock_wait", "locked", "closed"}))
                    => \E i \in 1..Len(stmts) : stmts[i].k = k

\* a query, failed or not, hands the loop back to receiver.next()
QueryKeepsLoop ==
    \A s \in Sockets :
        (pc[s] = "locked" /\ stmts' # stmts)
            => pc'[s] = "recv" /\ call'[s].k = call[s].k

HoldsOf ==
    [upload_data |-> 2, data_quality_report |-> 1 + 2,
     correlation_matrix |-> ServiceQueries.correlation_matrix, handler |-> 1]

\* mutant: the guard of a hold is still alive at the next lock().await
conn_guard_kept(l, r) == l

\* file_processor.rs:127, 221, 283 drop(conn_guard); duckdb.rs:29-60 and
\* the handlers: the guard is a local that ends with the function
drop_conn_guard(l, r) == l \ {r}

InitLocks ==
    /\ lock = {} /\ pc = [r \in Requests |-> "idle"]
    /\ call = [r \in Requests |-> NoInp] /\ stmts = <<>>
    /\ ret = [r \in Requests |-> NoOut] /\ inp = NoInp /\ out = NoOut
    /\ tableVersion = 0 /\ clock = 0 /\ cache = {}
    /\ store = MigratedStore

\* a call starts and reaches its first conn.lock().await
lock_await(r) ==
    /\ pc[r] = "idle"
    /\ \E fn \in DOMAIN HoldsOf :
          call' = [call EXCEPT ![r] =
                     [fn |-> fn, holds |-> HoldsOf[fn], locks |-> 0]]
    /\ pc' = [pc EXCEPT ![r] = "lock_wait"]
    /\ stmts' = Append(stmts, r)
    /\ UNCHANGED <<lock, ret, inp, out, tableVersion, store, clock, cache>>

\* the lock is granted to the request that has waited longest
lock_granted(r) ==
    /\ pc[r] = "lock_wait" /\ stmts # <<>> /\ Head(stmts) = r
    /\ lock_available(lock)
    /\ lock' = lock \cup {r}
    /\ stmts' = Tail(stmts)
    /\ call' = [call EXCEPT ![r].locks = @ + 1]
    /\ pc' = [pc EXCEPT ![r] = "locked"]
    /\ UNCHANGED <<ret, inp, out, tableVersion, store, clock, cache>>

\* the statements of the hold end, with a result or with an error that
\* ends the call, and the guard is dropped; a call with holds left reaches
\* its next conn.lock().await
guard_dropped(r) ==
    /\ pc[r] = "locked"
    /\ \E failed \in BOOLEAN :
          LET left == IF failed THEN 0 ELSE call[r].holds - 1
          IN  /\ call' = [call EXCEPT ![r].holds = left]
              /\ IF left > 0
                 THEN /\ pc' = [pc EXCEPT ![r] = "lock_wait"]
                      /\ stmts' = Append(stmts, r)
                 ELSE /\ pc' = [pc EXCEPT ![r] = "idle"]
                      /\ UNCHANGED stmts
    /\ lock' = drop_conn_guard(lock, r)
    /\ UNCHANGED <<ret, inp, out, tableVersion, store, clock, cache>>

NextLocks ==
    \E r \in Requests :
        \/ lock_await(r)
        \/ lock_granted(r)
        \/ guard_dropped(r)

SpecLocks == InitLocks /\ [][NextLocks]_vars

\* every query terminates and the lock is granted when it is free
FairLocks ==
    SpecLocks /\ \A r \in Requests :
                    WF_vars(lock_granted(r)) /\ WF_vars(guard_dropped(r))

\* a request that waits for the lock does not hold it, and when requests
\* wait, either a request that does not wait holds the lock or the lock is
\* free for the first of the queue
NoRequestWhileHolding ==
    /\ \A r \in Requests : pc[r] = "lock_wait" => r \notin lock
    /\ \A r \in lock : pc[r] = "locked"
    /\ stmts # <<>> => (lock = {} \/ \E r \in lock : pc[r] = "locked")
    /\ \A r \in Requests :
          pc[r] = "lock_wait" <=> \E i \in 1..Len(stmts) : stmts[i] = r

\* C26: no call requests the lock while it holds it, so the requests cannot
\* deadlock on the lock; with the waiters served in the order of their
\* requests and every hold ending, each waiting request acquires the lock
Thm_C26_NoDeadlockAndProgress ==
    /\ [](NoRequestWhileHolding)
    /\ \A r \in Requests : (pc[r] = "lock_wait") ~> (r \in lock)

\* an upload that has ended its first hold waits for its second while
\* another request holds the lock
Wit_C26_SecondHoldWaits ==
    \E r, q \in Requests :
        /\ r # q
        /\ pc[r] = "lock_wait" /\ call[r].fn = "upload_data"
        /\ call[r].locks = 1 /\ call[r].holds = 1
        /\ pc[q] = "locked" /\ q \in lock

====
